---------------------------- MODULE Spec2Model ----------------------------
(***************************************************************************)
(* Eucalypso MIDI FX (src/src/dsp/eucalypso.c): the instance is one record *)
(* `inst` holding the fields of eucalypso_instance_t; every public entry   *)
(* point (process_midi, tick, set_param) is one action that applies the    *)
(* whole handler.  A handler is an operator from an instance (and the      *)
(* caller's arguments) to the new instance and the events it wrote.        *)
(*                                                                         *)
(* uint32_t values are pairs <<hi, lo>> of 16-bit halves so that every     *)
(* intermediate value of the hash arithmetic stays below 2^31.             *)
(* The two double fields are fixed-point numbers in units of 1/FX sample;  *)
(* the input sets used below only produce multiples of 1/FX, which are     *)
(* exact in IEEE double as well.                                           *)
(* global_step_index, rand_cycle, mod_len, swap, swap_seed, vel_rnd,       *)
(* vel_seed, gate_rnd, gate_seed, time_rnd, time_seed, chain_params and the  *)
(* integer copy samples_until_step are written but never read by an       *)
(* event-producing path; they have no field.                              *)
(***************************************************************************)
EXTENDS Integers, Sequences, FiniteSets, TLC

\* ------------------------------------------------------------------------
\* Program constants
\* ------------------------------------------------------------------------
LANE_COUNT == 4
MAX_POOL_NOTES == 24
MAX_HELD_NOTES == 16
MAX_VOICES == 64
DEFAULT_BPM == 120
DEFAULT_SCALE_BASE_NOTE == 48
CLOCK_OUTPUT_DELAY_TICKS == 1
MAX_PENDING_STEP_TRIGGERS == 64

\* Fixed-point denominator of the double fields.
FX == 4

NOTE_ON == 144
NOTE_OFF == 128
CC_STATUS == 176
ALL_NOTES_OFF == 123

\* F(v) with v evaluated before F is entered.  TLC evaluates the definitions
\* of a LET and the arguments of an operator only where they are first used,
\* which nests the evaluation of a handler's successive intermediate values;
\* Eval keeps the steps of a handler in sequence, as the C statements are.
Eval(F(_), v) == CHOOSE r \in {F(x) : x \in {v}} : TRUE
Eval2(F(_, _), v, w) == CHOOSE r \in {F(x, y) : x \in {v}, y \in {w}} : TRUE
Eval3(F(_, _, _), u, v, w) == CHOOSE r \in {F(x, y, z) : x \in {u}, y \in {v}, z \in {w}} : TRUE

Rates == {"1/32", "1/16T", "1/16", "1/8T", "1/8", "1/4T", "1/4", "1/2", "1"}

Min(a, b) == IF a < b THEN a ELSE b
Max(a, b) == IF a > b THEN a ELSE b

clamp_int(v, lo, hi) == IF v < lo THEN lo ELSE IF v > hi THEN hi ELSE v

\* ------------------------------------------------------------------------
\* 32-bit unsigned arithmetic on <<hi, lo>> pairs
\* ------------------------------------------------------------------------
W16 == 65536

U32(n) == <<(n \div W16) % W16, n % W16>>

\* bit i of a ^ b, where p = 2^i
XorBit(a, b, p) == (((a \div p) + (b \div p)) % 2) * p

\* the four bits of a ^ b from bit p upwards, where p = 2^i
XorNibbles(a, b, p) ==
    (XorBit(a, b, p) + XorBit(a, b, 2 * p)) + (XorBit(a, b, 4 * p) + XorBit(a, b, 8 * p))

Xor16(a, b) ==
    (XorNibbles(a, b, 1) + XorNibbles(a, b, 16))
    + (XorNibbles(a, b, 256) + XorNibbles(a, b, 4096))

Xor32(x, y) ==
    Eval(LAMBDA p : <<Xor16(p[1][1], p[2][1]), Xor16(p[1][2], p[2][2])>>, <<x, y>>)

\* x >> 16 and x >> 15
Shr16(x) == <<0, x[1]>>
Shr15(x) == <<x[1] \div 32768, ((x[1] % 32768) * 2) + (x[2] \div 32768)>>

\* full 32-bit product of two 16-bit numbers, as <<hi, lo>>
Mul16(a, b) ==
    LET p0 == a * (b % 256)
        p1 == a * (b \div 256)
        low == p0 + (p1 % 256) * 256
    IN  <<((p1 \div 256) + (low \div W16)) % W16, low % W16>>

\* x * c modulo 2^32
Mul32(x, c) ==
    Eval(LAMBDA p : <<(p[1][1] + p[2][2] + p[3][2]) % W16, p[1][2]>>,
         Eval(LAMBDA a : <<Mul16(a[1][2], a[2][2]), Mul16(a[1][1], a[2][2]),
                           Mul16(a[1][2], a[2][1])>>,
              <<x, c>>))

\* x % m for 0 < m < 2^15
Mod32(x, m) == (((x[1] % m) * (W16 % m)) + (x[2] % m)) % m

\* (x >> 8) as a number (below 2^24), and (x >> 10)
ShrNum8(x) == x[1] * 256 + (x[2] \div 256)
ShrNum10(x) == x[1] * 64 + (x[2] \div 1024)

MIX_C1 == <<32747, 13613>>   \* 0x7feb352d
MIX_C2 == <<33900, 42635>>   \* 0x846ca68b
FNV_BASIS == <<33052, 40389>>   \* 2166136261
FNV_PRIME == <<256, 403>>       \* 16777619

mix_u32(x0) ==
    Eval(LAMBDA x5 : Xor32(x5, Shr16(x5)),
         Mul32(Eval(LAMBDA x3 : Xor32(x3, Shr15(x3)),
                    Mul32(Eval(LAMBDA x1 : Xor32(x1, Shr16(x1)), x0), MIX_C1)),
               MIX_C2))

\* step is a uint64_t whose high word is zero for every caller (a step
\* cursor, a pulse index or a shuffle index, all below 2^16).
step_rand_u32(seed, step, salt) ==
    Eval(LAMBDA inner : mix_u32(Xor32(Xor32(Xor32(seed, U32(step)), inner), salt)),
         mix_u32(Xor32(U32(0), salt)))

rand_offset_signed(r, amount) ==
    IF amount <= 0 THEN 0
    ELSE Mod32(r, amount * 2 + 1) - amount


\* ------------------------------------------------------------------------
\* Fixed-capacity arrays (a sequence is the array with its logical length)
\* ------------------------------------------------------------------------
arr_contains(arr, n) == \E i \in 1..Len(arr) : arr[i] = n

RemoveAt(arr, idx) ==
    [i \in 1..(Len(arr) - 1) |-> IF i < idx THEN arr[i] ELSE arr[i + 1]]

InsertAt(arr, idx, n) ==
    [i \in 1..(Len(arr) + 1) |->
        IF i < idx THEN arr[i] ELSE IF i = idx THEN n ELSE arr[i - 1]]

\* arr_add_sorted without the test of the capacity
arr_add_sorted_unbounded(arr, n, max_count) ==
    LET Put(i) == IF i <= Len(arr) /\ arr[i] = n THEN arr ELSE InsertAt(arr, i, n)
        Stops(stops) == Eval(Put, IF stops = {} THEN Len(arr) + 1
                                  ELSE CHOOSE k \in stops : \A j \in stops : k <= j)
    IN  Eval(Stops, {i \in 1..Len(arr) : arr[i] >= n})

arr_add_sorted(arr, n, max_count) ==
    IF Len(arr) >= max_count THEN arr
    ELSE LET Put(i) == IF i <= Len(arr) /\ arr[i] = n THEN arr ELSE InsertAt(arr, i, n)
             Stops(stops) == Eval(Put, IF stops = {} THEN Len(arr) + 1
                                       ELSE CHOOSE k \in stops : \A j \in stops : k <= j)
         IN  Eval(Stops, {i \in 1..Len(arr) : arr[i] >= n})

arr_add_tail_unique(arr, n, max_count) ==
    IF Len(arr) >= max_count THEN arr
    ELSE IF arr_contains(arr, n) THEN arr
    ELSE Append(arr, n)

arr_remove(arr, n) ==
    LET Hits(hits) == IF hits = {} THEN arr
                      ELSE RemoveAt(arr, CHOOSE k \in hits : \A j \in hits : k <= j)
    IN  Eval(Hits, {i \in 1..Len(arr) : arr[i] = n})

as_played_add(s, n) ==
    IF Len(s.as_played) >= MAX_HELD_NOTES THEN s
    ELSE IF arr_contains(s.as_played, n) THEN s
    ELSE [s EXCEPT !.as_played = Append(@, n)]

clear_active(s) == [s EXCEPT !.active_notes = <<>>, !.as_played = <<>>]

RECURSIVE AddAllSorted(_, _, _)
AddAllSorted(dst, src, i) ==
    IF i > Len(src) THEN dst
    ELSE AddAllSorted(arr_add_sorted(dst, src[i], MAX_HELD_NOTES), src, i + 1)

RECURSIVE AddPlayedFrom(_, _, _)
AddPlayedFrom(s, src, i) ==
    IF i > Len(src) THEN s
    ELSE AddPlayedFrom(
            IF arr_contains(s.active_notes, src[i]) THEN as_played_add(s, src[i]) ELSE s,
            src, i + 1)

\* sync_active_to_physical listing the played order from the sorted keys
sync_active_to_physical_sorted(s) ==
    LET c == clear_active(s)
        a == [c EXCEPT !.active_notes = AddAllSorted(<<>>, s.physical_notes, 1)]
    IN  AddPlayedFrom(a, s.physical_notes, 1)

sync_active_to_physical(s) ==
    LET c == clear_active(s)
        a == [c EXCEPT !.active_notes = AddAllSorted(<<>>, s.physical_notes, 1)]
    IN  AddPlayedFrom(a, s.physical_as_played, 1)

any_enabled_lane(s) == \E i \in 1..LANE_COUNT : s.lanes[i].enabled

live_note_count(s) == IF s.latch THEN Len(s.active_notes) ELSE Len(s.physical_notes)

reset_lane_runtime(s) ==
    [s EXCEPT !.lanes = [i \in 1..LANE_COUNT |-> [s.lanes[i] EXCEPT !.step_cursor = 0]]]

reset_phrase(s) == [reset_lane_runtime(s) EXCEPT !.swing_phase = 0]

\* update_phrase_running without the test of the lanes in scale register mode
update_phrase_running_any_lane(s) ==
    LET should_run == live_note_count(s) > 0
    IN  IF should_run = s.phrase_running THEN s
        ELSE LET t == [s EXCEPT !.phrase_running = should_run]
             IN  IF s.retrigger_mode = "restart" THEN reset_phrase(t) ELSE t

update_phrase_running(s) ==
    LET should_run == IF s.register_mode = "scale"
                      THEN any_enabled_lane(s) /\ live_note_count(s) > 0
                      ELSE live_note_count(s) > 0
    IN  IF should_run = s.phrase_running THEN s
        ELSE LET t == [s EXCEPT !.phrase_running = should_run]
             IN  IF s.retrigger_mode = "restart" THEN reset_phrase(t) ELSE t

set_latch(s, en) ==
    IF s.latch = en THEN s
    ELSE LET Latched(a) ==
                 IF en
                 THEN IF Len(a.physical_notes) > 0
                      THEN [sync_active_to_physical(a) EXCEPT !.latch_ready_replace = FALSE]
                      ELSE [a EXCEPT !.latch_ready_replace = TRUE]
                 ELSE sync_active_to_physical([a EXCEPT !.latch_ready_replace = FALSE])
         IN  update_phrase_running(
                 [Eval(Latched, [s EXCEPT !.latch = en]) EXCEPT !.note_set_dirty = FALSE])

apply_pending_note_set(s) ==
    IF s.latch \/ ~s.note_set_dirty THEN s
    ELSE [sync_active_to_physical(s) EXCEPT !.note_set_dirty = FALSE]

note_on(s, note) ==
    LET Held(a) ==
            IF a.latch
            THEN LET r == IF a.latch_ready_replace
                          THEN IF a.retrigger_mode = "restart"
                               THEN reset_phrase([clear_active(a) EXCEPT
                                                     !.latch_ready_replace = FALSE])
                               ELSE [clear_active(a) EXCEPT !.latch_ready_replace = FALSE]
                          ELSE a
                 IN  as_played_add(
                         [r EXCEPT !.active_notes = arr_add_sorted(@, note, MAX_HELD_NOTES)],
                         note)
            ELSE [a EXCEPT !.note_set_dirty = TRUE]
    IN  update_phrase_running(
            Eval(Held, [s EXCEPT
                          !.physical_notes = arr_add_sorted(@, note, MAX_HELD_NOTES),
                          !.physical_as_played = arr_add_tail_unique(@, note, MAX_HELD_NOTES)]))

\* note_off releasing the pitch from the active set in latch mode as well
note_off_latch_release(s, note) ==
    LET Released(a) ==
            IF a.latch
            THEN IF Len(a.physical_notes) = 0
                 THEN [a EXCEPT !.latch_ready_replace = TRUE,
                                !.active_notes = arr_remove(@, note)]
                 ELSE [a EXCEPT !.active_notes = arr_remove(@, note)]
            ELSE IF Len(a.physical_notes) = 0
                 THEN [clear_active(a) EXCEPT !.note_set_dirty = FALSE]
                 ELSE [a EXCEPT !.note_set_dirty = TRUE]
    IN  update_phrase_running(
            Eval(Released, [s EXCEPT
                              !.physical_notes = arr_remove(@, note),
                              !.physical_as_played = arr_remove(@, note)]))

note_off(s, note) ==
    LET Released(a) ==
            IF a.latch
            THEN IF Len(a.physical_notes) = 0
                 THEN [a EXCEPT !.latch_ready_replace = TRUE] ELSE a
            ELSE IF Len(a.physical_notes) = 0
                 THEN [clear_active(a) EXCEPT !.note_set_dirty = FALSE]
                 ELSE [a EXCEPT !.note_set_dirty = TRUE]
    IN  update_phrase_running(
            Eval(Released, [s EXCEPT
                              !.physical_notes = arr_remove(@, note),
                              !.physical_as_played = arr_remove(@, note)]))

\* ------------------------------------------------------------------------
\* Timing
\* ------------------------------------------------------------------------
\* rate_beats_per_step as a fraction <<numerator, denominator>>
rate_beats_per_step(r) ==
    CASE r = "1/32" -> <<1, 8>>
      [] r = "1/16T" -> <<1, 6>>
      [] r = "1/16" -> <<1, 4>>
      [] r = "1/8T" -> <<1, 3>>
      [] r = "1/8" -> <<1, 2>>
      [] r = "1/4T" -> <<2, 3>>
      [] r = "1/4" -> <<1, 1>>
      [] r = "1/2" -> <<2, 1>>
      [] OTHER -> <<4, 1>>

rate_is_triplet(r) == r \in {"1/16T", "1/8T", "1/4T"}

\* (int)(x + 0.5) of a fixed-point x
RoundFx(x) == (2 * x + FX) \div (2 * FX)

recalc_clock_timing(s) ==
    LET b == rate_beats_per_step(s.rate)
        clocks == (2 * 24 * b[1] + b[2]) \div (2 * b[2])
    IN  [s EXCEPT !.clocks_per_step = IF clocks < 1 THEN 1 ELSE clocks]

realign_clock_phase(s) ==
    LET cps == IF s.clocks_per_step < 1 THEN 1 ELSE s.clocks_per_step
    IN  [s EXCEPT !.clocks_per_step = cps,
                  !.clock_counter = s.clock_tick_total % cps,
                  !.pending_step_triggers = 0,
                  !.delayed_step_triggers = 0]

recalc_timing(s, sample_rate) ==
    IF sample_rate <= 0 THEN s
    ELSE LET bpm == clamp_int(s.bpm, 40, 240)
             b == rate_beats_per_step(s.rate)
             raw == (sample_rate * 60 * b[1] * FX) \div (b[2] * bpm)
             step_samples == IF raw < FX THEN FX ELSE raw
             ib == RoundFx(step_samples)
         IN  [s EXCEPT !.bpm = bpm,
                       !.sample_rate = sample_rate,
                       !.step_interval_base_f = step_samples,
                       !.step_interval_base = IF ib < 1 THEN 1 ELSE ib,
                       !.samples_until_step_f =
                           IF @ > step_samples \/ @ <= 0 THEN step_samples ELSE @,
                       !.timing_dirty = FALSE]

\* next_step_interval starting the alternation with the short interval
next_step_interval_short_first(s) ==
    LET base == IF s.step_interval_base_f > 0 THEN s.step_interval_base_f ELSE FX
        sw == clamp_int(s.swing, 0, 100)
        d == (base * sw) \div 200
        long == Max(base + d, FX)
        short == Max(base - d, FX)
    IN  IF rate_is_triplet(s.rate) \/ sw <= 0 THEN [s |-> s, interval |-> base]
        ELSE IF s.swing_phase = 0
             THEN [s |-> [s EXCEPT !.swing_phase = 1], interval |-> short]
             ELSE [s |-> [s EXCEPT !.swing_phase = 0], interval |-> long]

\* returns the interval and the instance with its swing phase flipped
next_step_interval(s) ==
    LET base == IF s.step_interval_base_f > 0 THEN s.step_interval_base_f ELSE FX
        sw == clamp_int(s.swing, 0, 100)
        d == (base * sw) \div 200
        long == Max(base + d, FX)
        short == Max(base - d, FX)
    IN  IF rate_is_triplet(s.rate) \/ sw <= 0 THEN [s |-> s, interval |-> base]
        ELSE IF s.swing_phase = 0
             THEN [s |-> [s EXCEPT !.swing_phase = 1], interval |-> long]
             ELSE [s |-> [s EXCEPT !.swing_phase = 0], interval |-> short]

realign_internal_phase(s) ==
    LET interval == IF s.step_interval_base_f > 0 THEN s.step_interval_base_f ELSE FX
        rem == (s.internal_sample_total * FX) % interval
        until_next == IF rem = 0 THEN interval ELSE interval - rem
    IN  [s EXCEPT !.samples_until_step_f = Max(until_next, FX),
                  !.swing_phase = 0]

\* ------------------------------------------------------------------------
\* Lane modifiers
\* ------------------------------------------------------------------------
RECURSIVE HashNotes(_, _, _)
HashNotes(h, notes, i) ==
    IF i > Len(notes) THEN h
    ELSE HashNotes(Mul32(Xor32(h, U32(notes[i])), FNV_PRIME), notes, i + 1)

held_set_hash(s) == HashNotes(FNV_BASIS, s.active_notes, 1)

\* lane_index is 1-based here, so (lane_index + 1) of the source is lane_i
lane_modifier_hash(s, lane_i) ==
    mix_u32(Xor32(held_set_hash(s), U32(lane_i * 40503)))

lane_should_drop(lane, mod_hash, mod_step) ==
    LET amt == clamp_int(lane.drop, 0, 100)
    IN  IF amt <= 0 THEN FALSE
        ELSE IF amt >= 100 THEN TRUE
        ELSE Mod32(step_rand_u32(U32(lane.drop_seed), mod_step,
                                 Xor32(mod_hash, U32(53412))), 100) < amt

lane_step_velocity(s, lane, lane_i, mod_step) ==
    LET base == clamp_int(IF lane.velocity > 0 THEN lane.velocity ELSE s.global_velocity, 1, 127)
        amt == clamp_int(s.global_v_rnd, 0, 127)
        seed == U32(clamp_int(s.global_rnd_seed, 0, 65535) + 10000 * lane_i)
    IN  IF amt <= 0 THEN base
        ELSE clamp_int(base + rand_offset_signed(step_rand_u32(seed, mod_step, U32(659918)),
                                                 amt), 1, 127)

lane_step_gate(s, lane, lane_i, mod_step) ==
    LET base == clamp_int(IF lane.gate > 0 THEN lane.gate ELSE s.global_gate, 0, 1600)
        amt == clamp_int(s.global_g_rnd, 0, 1600)
        seed == U32(clamp_int(s.global_rnd_seed, 0, 65535) + 10000 * lane_i)
    IN  IF amt <= 0 THEN base
        ELSE clamp_int(base + rand_offset_signed(step_rand_u32(seed, mod_step, U32(27251)),
                                                 amt), 0, 1600)

lane_random_octave_offset(lane, mod_hash, mod_step) ==
    LET amt == clamp_int(lane.oct, 0, 100)
        Drawn(r) ==
            LET bit8 == (r[2] \div 256) % 2
                bit10 == (r[2] \div 1024) % 2
                pick == (r[2] \div 1024) % 4
            IN  IF amt <= 0 THEN 0
                ELSE IF Mod32(r, 100) >= amt THEN 0
                ELSE CASE lane.oct_rng = "+1" -> 12
                       [] lane.oct_rng = "-1" -> -12
                       [] lane.oct_rng = "+-1" -> IF bit8 = 1 THEN 12 ELSE -12
                       [] lane.oct_rng = "+2" -> IF bit10 = 1 THEN 12 ELSE 24
                       [] lane.oct_rng = "-2" -> IF bit10 = 1 THEN -12 ELSE -24
                       [] OTHER -> CASE pick = 0 -> -24 [] pick = 1 -> -12
                                     [] pick = 2 -> 12 [] OTHER -> 24
    IN  Eval(Drawn, step_rand_u32(Xor32(U32(lane.oct_seed), U32(817822)), mod_step,
                                  Xor32(mod_hash, U32(32541))))

\* ------------------------------------------------------------------------
\* Register pool
\* ------------------------------------------------------------------------
add_unique_note(notes, max_count, note) ==
    IF arr_contains(notes, note) THEN notes
    ELSE IF Len(notes) >= max_count THEN notes
    ELSE Append(notes, note)

Swap(arr, i, j) ==
    [k \in 1..Len(arr) |-> IF k = i THEN arr[j] ELSE IF k = j THEN arr[i] ELSE arr[k]]

\* the swaps of the loop for the 0-based source indices hi down to lo (the
\* range is halved to keep the evaluation shallow)
RECURSIVE ShuffleFrom(_, _, _, _)
ShuffleFrom(arr, hi, lo, seed) ==
    IF lo < hi
    THEN Eval(LAMBDA swapped : ShuffleFrom(swapped, (lo + hi) \div 2, lo, seed),
              ShuffleFrom(arr, hi, ((lo + hi) \div 2) + 1, seed))
    ELSE <<>> \o Swap(arr, hi + 1, Mod32(step_rand_u32(seed, hi, U32(16838)), hi + 1) + 1)

seeded_shuffle_notes(arr, seed) ==
    IF Len(arr) <= 1 THEN arr ELSE ShuffleFrom(arr, Len(arr) - 1, 1, seed)

scale_intervals_for_mode(mode) ==
    CASE mode = "major" -> <<0, 2, 4, 5, 7, 9, 11>>
      [] mode = "natural_minor" -> <<0, 2, 3, 5, 7, 8, 10>>
      [] mode = "harmonic_minor" -> <<0, 2, 3, 5, 7, 8, 11>>
      [] mode = "melodic_minor" -> <<0, 2, 3, 5, 7, 9, 11>>
      [] mode = "dorian" -> <<0, 2, 3, 5, 7, 9, 10>>
      [] mode = "phrygian" -> <<0, 1, 3, 5, 7, 8, 10>>
      [] mode = "lydian" -> <<0, 2, 4, 6, 7, 9, 11>>
      [] mode = "mixolydian" -> <<0, 2, 4, 5, 7, 9, 10>>
      [] mode = "locrian" -> <<0, 1, 3, 5, 6, 8, 10>>
      [] mode = "pentatonic_major" -> <<0, 2, 4, 7, 9>>
      [] mode = "pentatonic_minor" -> <<0, 3, 5, 7, 10>>
      [] mode = "blues" -> <<0, 3, 5, 6, 7, 10>>
      [] mode = "whole_tone" -> <<0, 2, 4, 6, 8, 10>>
      [] OTHER -> <<0, 1, 2, 3, 4, 5, 6, 7, 8, 9, 10, 11>>

\* the two nested loops of build_scale_pool, flattened: k counts the
\* (octave, interval) pairs in the order the loops visit them
RECURSIVE ScaleFill(_, _, _, _, _, _)
ScaleFill(notes, k, base, iv, down, note_limit) ==
    IF k >= 3 * Len(iv) \/ Len(notes) >= note_limit THEN notes
    ELSE LET o == k \div Len(iv)
             i == k % Len(iv)
             note == IF down THEN base - (o + 1) * 12 + iv[Len(iv) - i]
                     ELSE base + o * 12 + iv[i + 1]
         IN  ScaleFill(IF note < 0 \/ note > 127 THEN notes
                       ELSE add_unique_note(notes, note_limit, note),
                       k + 1, base, iv, down, note_limit)

\* build_scale_pool asking for two live notes
build_scale_pool_two_notes(s, max_notes) ==
    IF max_notes <= 0 \/ live_note_count(s) <= 1 THEN <<>>
    ELSE <<clamp_int(DEFAULT_SCALE_BASE_NOTE + clamp_int(s.root_note, 0, 11), 0, 127)>>

\* build_scale_pool filling the whole pool whatever the scale range is
build_scale_pool_full(s, max_notes) ==
    IF max_notes <= 0 \/ live_note_count(s) <= 0 THEN <<>>
    ELSE LET base == DEFAULT_SCALE_BASE_NOTE + clamp_int(s.root_note, 0, 11)
             iv == scale_intervals_for_mode(s.scale_mode)
             down == s.held_order = "down"
             first == IF down /\ base >= 0 /\ base <= 127
                      THEN add_unique_note(<<>>, max_notes, base) ELSE <<>>
             filled == ScaleFill(first, 0, base, iv, down, max_notes)
             pool == IF Len(filled) = 0 THEN <<clamp_int(base, 0, 127)>> ELSE filled
         IN  IF s.held_order = "rand"
             THEN seeded_shuffle_notes(pool, U32(s.held_order_seed)) ELSE pool

build_scale_pool(s, max_notes) ==
    IF max_notes <= 0 \/ live_note_count(s) <= 0 THEN <<>>
    ELSE LET base == DEFAULT_SCALE_BASE_NOTE + clamp_int(s.root_note, 0, 11)
             note_limit == clamp_int(s.scale_range, 1, max_notes)
             iv == scale_intervals_for_mode(s.scale_mode)
             down == s.held_order = "down"
             first == IF down /\ base >= 0 /\ base <= 127
                      THEN add_unique_note(<<>>, note_limit, base) ELSE <<>>
             filled == ScaleFill(first, 0, base, iv, down, note_limit)
             pool == IF Len(filled) = 0 THEN <<clamp_int(base, 0, 127)>> ELSE filled
         IN  IF s.held_order = "rand"
             THEN seeded_shuffle_notes(pool, U32(s.held_order_seed)) ELSE pool

RECURSIVE AddUniqueFrom(_, _, _, _, _)
AddUniqueFrom(notes, src, i, dir, max_notes) ==
    IF i < 1 \/ i > Len(src) \/ Len(notes) >= max_notes THEN notes
    ELSE AddUniqueFrom(add_unique_note(notes, max_notes, src[i]), src, i + dir, dir, max_notes)

\* build_held_pool falling back to middle C when no note is active
build_held_pool_fallback(s, max_notes) ==
    IF max_notes <= 0 THEN <<>>
    ELSE IF Len(s.active_notes) = 0 THEN <<60>>
    ELSE IF s.held_order = "played" /\ Len(s.as_played) > 0
         THEN AddUniqueFrom(<<>>, s.as_played, 1, 1, max_notes)
    ELSE IF s.held_order = "down"
         THEN AddUniqueFrom(<<>>, s.active_notes, Len(s.active_notes), -1, max_notes)
    ELSE IF s.held_order = "rand"
         THEN seeded_shuffle_notes(AddUniqueFrom(<<>>, s.active_notes, 1, 1, max_notes),
                                   U32(s.held_order_seed))
    ELSE AddUniqueFrom(<<>>, s.active_notes, 1, 1, max_notes)

build_held_pool(s, max_notes) ==
    IF max_notes <= 0 THEN <<>>
    ELSE IF s.held_order = "played" /\ Len(s.as_played) > 0
         THEN AddUniqueFrom(<<>>, s.as_played, 1, 1, max_notes)
    ELSE IF s.held_order = "down"
         THEN AddUniqueFrom(<<>>, s.active_notes, Len(s.active_notes), -1, max_notes)
    ELSE IF s.held_order = "rand"
         THEN seeded_shuffle_notes(AddUniqueFrom(<<>>, s.active_notes, 1, 1, max_notes),
                                   U32(s.held_order_seed))
    ELSE AddUniqueFrom(<<>>, s.active_notes, 1, 1, max_notes)

build_register_pool(s, max_notes) ==
    IF max_notes <= 0 THEN <<>>
    ELSE IF s.register_mode = "scale" THEN build_scale_pool(s, max_notes)
    ELSE build_held_pool(s, max_notes)

\* select_lane_note wrapping an index beyond the pool round to its start
select_lane_note_wrapped(lane, pool) ==
    IF Len(pool) <= 0 THEN -1
    ELSE pool[((clamp_int(lane.note_step, 1, MAX_POOL_NOTES) - 1) % Len(pool)) + 1]

\* -1 when the pool is empty
select_lane_note(lane, pool) ==
    IF Len(pool) <= 0 THEN -1
    ELSE LET step == clamp_int(lane.note_step, 1, MAX_POOL_NOTES)
             idx0 == IF step - 1 < 0 THEN 0 ELSE step - 1
             idx == IF idx0 >= Len(pool) THEN Len(pool) - 1 ELSE idx0
         IN  pool[idx + 1]

\* apply_lane_note_random taking the drawn entry without skipping the lane's own
apply_lane_note_random_any(lane, note, pool, mod_hash, mod_step) ==
    LET amt == clamp_int(lane.note_rnd, 0, 100)
        Drawn(r) ==
            IF Mod32(r, 100) >= amt THEN note
            ELSE pool[(ShrNum8(r) % Len(pool)) + 1]
    IN  IF Len(pool) < 2 THEN note
        ELSE IF amt <= 0 THEN note
        ELSE Eval(Drawn, step_rand_u32(U32(lane.seed), mod_step, Xor32(mod_hash, U32(37347))))

apply_lane_note_random(lane, note, pool, mod_hash, mod_step) ==
    LET amt == clamp_int(lane.note_rnd, 0, 100)
        Other(start, others) ==
            IF others = {} THEN note
            ELSE pool[((start + (CHOOSE i \in others : \A j \in others : i <= j))
                       % Len(pool)) + 1]
        From(start) ==
            Eval(LAMBDA others : Other(start, others),
                 {i \in 0..(Len(pool) - 1) : pool[((start + i) % Len(pool)) + 1] # note})
        Drawn(r) ==
            IF Mod32(r, 100) >= amt THEN note
            ELSE Eval(From, ShrNum8(r) % Len(pool))
    IN  IF Len(pool) < 2 THEN note
        ELSE IF amt <= 0 THEN note
        ELSE Eval(Drawn, step_rand_u32(U32(lane.seed), mod_step, Xor32(mod_hash, U32(37347))))

\* euclid_hit without the rotation
euclid_hit_unrotated(step_index, steps0, pulses0, rotation0) ==
    LET steps == clamp_int(steps0, 1, 128)
        pulses == clamp_int(pulses0, 0, steps)
        pos == step_index % steps
    IN  IF pulses <= 0 THEN FALSE
        ELSE IF pulses >= steps THEN TRUE
        ELSE ((pos * pulses) % steps) < pulses

\* euclid_hit with the comparison made inclusive
euclid_hit_inclusive(step_index, steps0, pulses0, rotation0) ==
    LET steps == clamp_int(steps0, 1, 128)
        pulses == clamp_int(pulses0, 0, steps)
        rotation == clamp_int(rotation0, 0, steps - 1)
        pos == (step_index + rotation) % steps
    IN  IF pulses <= 0 THEN FALSE
        ELSE IF pulses >= steps THEN TRUE
        ELSE ((pos * pulses) % steps) <= pulses

euclid_hit(step_index, steps0, pulses0, rotation0) ==
    LET steps == clamp_int(steps0, 1, 128)
        pulses == clamp_int(pulses0, 0, steps)
        rotation == clamp_int(rotation0, 0, steps - 1)
        pos == (step_index + rotation) % steps
    IN  IF pulses <= 0 THEN FALSE
        ELSE IF pulses >= steps THEN TRUE
        ELSE ((pos * pulses) % steps) < pulses

euclid_pulse_index(step_index, steps0, pulses0, rotation0) ==
    LET steps == clamp_int(steps0, 1, 128)
        pulses == clamp_int(pulses0, 0, steps)
        rotation == clamp_int(rotation0, 0, steps - 1)
    IN  IF ~euclid_hit(step_index, steps, pulses, rotation) THEN -1
        ELSE IF step_index < 0 \/ step_index >= steps THEN -1
        ELSE Cardinality({i \in 0..(step_index - 1) : euclid_hit(i, steps, pulses, rotation)})

\* ------------------------------------------------------------------------
\* Voices and output.  An event is <<status, data1, data2>>; `o` is the
\* caller's output buffer so far and max_out its capacity.  The emitting
\* helpers return [s, o, ok]: the instance, the buffer and the C return.
\* ------------------------------------------------------------------------
Ev(status, d1, d2) == <<status, d1, d2>>

\* emit3 without the test of the capacity
emit3_uncapped(o, max_out, e) == [o |-> Append(o, e), ok |-> TRUE]

emit3(o, max_out, e) ==
    IF Len(o) >= max_out THEN [o |-> o, ok |-> FALSE]
    ELSE [o |-> Append(o, e), ok |-> TRUE]

\* idx is 1-based
voice_remove_at(s, idx) ==
    IF idx < 1 \/ idx > Len(s.voices) THEN s
    ELSE [s EXCEPT !.voices = RemoveAt(@, idx)]

\* voice_note_off writing the note-off as a note-on of velocity 0
voice_note_off_running(s, o, idx, max_out) ==
    IF idx < 1 \/ idx > Len(s.voices) THEN [s |-> s, o |-> o, ok |-> FALSE]
    ELSE LET Emitted(e) ==
                 IF ~e.ok THEN [s |-> s, o |-> o, ok |-> FALSE]
                 ELSE [s |-> voice_remove_at(s, idx), o |-> e.o, ok |-> TRUE]
         IN  Eval(Emitted, emit3(o, max_out, Ev(NOTE_ON, s.voices[idx].note, 0)))

\* voice_note_off removing the voice whether or not its note-off was written
voice_note_off_dropping(s, o, idx, max_out) ==
    IF idx < 1 \/ idx > Len(s.voices) THEN [s |-> s, o |-> o, ok |-> FALSE]
    ELSE LET Emitted(e) == [s |-> voice_remove_at(s, idx), o |-> e.o, ok |-> TRUE]
         IN  Eval(Emitted, emit3(o, max_out, Ev(NOTE_OFF, s.voices[idx].note, 0)))

voice_note_off(s, o, idx, max_out) ==
    IF idx < 1 \/ idx > Len(s.voices) THEN [s |-> s, o |-> o, ok |-> FALSE]
    ELSE LET Emitted(e) ==
                 IF ~e.ok THEN [s |-> s, o |-> o, ok |-> FALSE]
                 ELSE [s |-> voice_remove_at(s, idx), o |-> e.o, ok |-> TRUE]
         IN  Eval(Emitted, emit3(o, max_out, Ev(NOTE_OFF, s.voices[idx].note, 0)))

\* faulty variant: only the oldest voice is retired
flush_all_voices_once(s, o, max_out) ==
    IF Len(s.voices) = 0 THEN [s |-> s, o |-> o]
    ELSE Eval(LAMBDA r : [s |-> r.s, o |-> r.o], voice_note_off(s, o, 1, max_out))

RECURSIVE flush_all_voices(_, _, _)
flush_all_voices(s, o, max_out) ==
    IF Len(s.voices) = 0 THEN [s |-> s, o |-> o]
    ELSE LET Rest(r) == IF ~r.ok THEN [s |-> s, o |-> o]
                        ELSE flush_all_voices(r.s, r.o, max_out)
         IN  Eval(Rest, voice_note_off(s, o, 1, max_out))

RECURSIVE KillFrom(_, _, _, _, _)
KillFrom(s, o, i, note, max_out) ==
    IF i > Len(s.voices) THEN [s |-> s, o |-> o]
    ELSE IF s.voices[i].note = note
         THEN LET Rest(r) == IF ~r.ok THEN [s |-> s, o |-> o]
                             ELSE KillFrom(r.s, r.o, i, note, max_out)
              IN  Eval(Rest, voice_note_off(s, o, i, max_out))
         ELSE KillFrom(s, o, i + 1, note, max_out)

kill_voice_notes(s, o, note, max_out) == KillFrom(s, o, 1, note, max_out)

voice_add(s, note, gate_pct) ==
    IF Len(s.voices) >= MAX_VOICES THEN s
    ELSE LET clocks == (s.clocks_per_step * gate_pct) \div 100
             samples == (s.step_interval_base * gate_pct) \div 100
             v == IF s.sync_mode = "clock"
                  THEN [note |-> note, clock_left |-> Max(clocks, 1), sample_left |-> 0]
                  ELSE [note |-> note, clock_left |-> 0, sample_left |-> Max(samples, 1)]
         IN  [s EXCEPT !.voices = Append(@, v)]

RECURSIVE ClockTimersFrom(_, _, _, _)
ClockTimersFrom(s, o, i, max_out) ==
    IF i > Len(s.voices) THEN [s |-> s, o |-> o]
    ELSE LET Retired(d, r) == IF ~r.ok THEN [s |-> d, o |-> o]
                              ELSE ClockTimersFrom(r.s, r.o, i, max_out)
             Counted(d) ==
                 IF d.voices[i].clock_left <= 0
                 THEN Eval(LAMBDA r : Retired(d, r), voice_note_off(d, o, i, max_out))
                 ELSE ClockTimersFrom(d, o, i + 1, max_out)
         IN  Eval(Counted, IF s.voices[i].clock_left > 0
                           THEN [s EXCEPT !.voices[i].clock_left = @ - 1] ELSE s)

advance_voice_timers_clock(s, o, max_out) == ClockTimersFrom(s, o, 1, max_out)

RECURSIVE SampleTimersFrom(_, _, _, _, _)
SampleTimersFrom(s, o, i, frames, max_out) ==
    IF i > Len(s.voices) THEN [s |-> s, o |-> o]
    ELSE LET Retired(d, r) == IF ~r.ok THEN [s |-> d, o |-> o]
                              ELSE SampleTimersFrom(r.s, r.o, i, frames, max_out)
             Counted(d) ==
                 IF d.voices[i].sample_left <= 0
                 THEN Eval(LAMBDA r : Retired(d, r), voice_note_off(d, o, i, max_out))
                 ELSE SampleTimersFrom(d, o, i + 1, frames, max_out)
         IN  Eval(Counted, IF s.voices[i].sample_left > 0
                           THEN [s EXCEPT !.voices[i].sample_left = @ - frames] ELSE s)

advance_voice_timers_samples(s, o, frames, max_out) ==
    SampleTimersFrom(s, o, 1, frames, max_out)

\* faulty variant: the eviction loop retires the newest voice
RECURSIVE EvictNewestWhileFull(_, _, _, _)
EvictNewestWhileFull(s, o, voice_limit, max_out) ==
    IF Len(s.voices) < voice_limit THEN [s |-> s, o |-> o, ok |-> TRUE]
    ELSE LET Rest(r) == IF ~r.ok THEN [s |-> s, o |-> o, ok |-> FALSE]
                        ELSE EvictNewestWhileFull(r.s, r.o, voice_limit, max_out)
         IN  Eval(Rest, voice_note_off(s, o, Len(s.voices), max_out))

\* the eviction loop of schedule_note: while (voice_count >= voice_limit)
RECURSIVE EvictWhileFull(_, _, _, _)
EvictWhileFull(s, o, voice_limit, max_out) ==
    IF Len(s.voices) < voice_limit THEN [s |-> s, o |-> o, ok |-> TRUE]
    ELSE LET Rest(r) == IF ~r.ok THEN [s |-> s, o |-> o, ok |-> FALSE]
                        ELSE EvictWhileFull(r.s, r.o, voice_limit, max_out)
         IN  Eval(Rest, voice_note_off(s, o, 1, max_out))

schedule_note(s, o, note, velocity, gate_pct0, max_out) ==
    IF note < 0 \/ note > 127 THEN [s |-> s, o |-> o, ok |-> FALSE]
    ELSE LET vel == clamp_int(velocity, 1, 127)
             gate_pct == clamp_int(gate_pct0, 0, 1600)
             voice_limit == clamp_int(s.max_voices, 1, MAX_VOICES)
             \* the note-off of a gate of 0%, or the new voice
             Sounded(v, on) ==
                 IF ~on.ok THEN [s |-> v.s, o |-> v.o, ok |-> FALSE]
                 ELSE IF gate_pct <= 0
                      THEN Eval(LAMBDA off : [s |-> v.s, o |-> off.o, ok |-> off.ok],
                                emit3(on.o, max_out, Ev(NOTE_OFF, note, 0)))
                      ELSE [s |-> voice_add(v.s, note, gate_pct), o |-> on.o, ok |-> TRUE]
             Evicted(v) ==
                 IF ~v.ok THEN [s |-> v.s, o |-> v.o, ok |-> FALSE]
                 ELSE Eval(LAMBDA on : Sounded(v, on),
                           emit3(v.o, max_out, Ev(NOTE_ON, note, vel)))
             Killed(k) == Eval(Evicted, EvictWhileFull(k.s, k.o, voice_limit, max_out))
         IN  Eval(Killed, kill_voice_notes(s, o, note, max_out))

\* faulty variant: the voices are flushed, the note state and the phrase
\* are left as they were
handle_transport_stop_flush_only(s, max_out) ==
    LET cc == IF max_out > 0 THEN emit3(<<>>, max_out, Ev(CC_STATUS, ALL_NOTES_OFF, 0)).o
              ELSE <<>>
    IN  IF Len(s.voices) > 0 /\ Len(cc) < max_out
        THEN flush_all_voices(s, cc, max_out)
        ELSE [s |-> s, o |-> cc]

handle_transport_stop(s, max_out) ==
    LET cc == IF max_out > 0 THEN emit3(<<>>, max_out, Ev(CC_STATUS, ALL_NOTES_OFF, 0)).o
              ELSE <<>>
        Cleared(f, a) ==
            [s |-> reset_phrase([clear_active(a) EXCEPT !.note_set_dirty = FALSE,
                                                        !.latch_ready_replace = a.latch,
                                                        !.phrase_running = FALSE]),
             o |-> f.o]
        Flushed(f) ==
            Eval(LAMBDA a : Cleared(f, a),
                 [f.s EXCEPT !.physical_notes = <<>>, !.physical_as_played = <<>>])
    IN  Eval(Flushed, IF Len(s.voices) > 0 /\ Len(cc) < max_out
                      THEN flush_all_voices(s, cc, max_out)
                      ELSE [s |-> s, o |-> cc])

\* faulty variant: the excess voices are never retired
enforce_voice_limit_skipped(s, o, max_out) == [s |-> s, o |-> o]

enforce_voice_limit(s, o, max_out) ==
    LET limit == clamp_int(s.max_voices, 1, MAX_VOICES)
        RECURSIVE Loop(_, _)
        Loop(t, b) ==
            IF Len(t.voices) <= limit THEN [s |-> t, o |-> b]
            ELSE Eval(LAMBDA r : IF ~r.ok THEN [s |-> t, o |-> b] ELSE Loop(r.s, r.o),
                      voice_note_off(t, b, 1, max_out))
    IN  Loop(s, o)

\* ------------------------------------------------------------------------
\* One step.  run_step returns [s, o, ev]: the instance, the events of this
\* step (its own buffer of capacity max_out) and ev, a log with one record
\* when the step was evaluated (should_advance) and none otherwise.
\* ------------------------------------------------------------------------
Cursors(s) == [i \in 1..LANE_COUNT |-> s.lanes[i].step_cursor]

\* what a lane's schedule_note did: the voices before and after it, and the
\* events it wrote
ScheduleLog(note, gate_pct, before, after, o, b) ==
    <<[note |-> note, gate |-> clamp_int(gate_pct, 0, 1600),
       before |-> before.voices, after |-> after.voices,
       limit |-> clamp_int(before.max_voices, 1, MAX_VOICES),
       events |-> SubSeq(b, Len(o) + 1, Len(b))]>>

\* the body of the lane loop for one enabled lane; brk is the loop's break
LaneStep(s, o, lane_i, max_out) ==
    LET l0 == s.lanes[lane_i]
        steps == clamp_int(l0.steps, 1, 128)
        pulses == clamp_int(l0.pulses, 0, steps)
        rotation == clamp_int(l0.rotation, 0, steps - 1)
        cursor == IF l0.step_cursor < 0 \/ l0.step_cursor >= steps THEN 0 ELSE l0.step_cursor
        lane == [l0 EXCEPT !.steps = steps, !.pulses = pulses, !.rotation = rotation,
                           !.step_cursor = cursor]
        pulse_idx == euclid_pulse_index(cursor, steps, pulses, rotation)
        \* lane->step_cursor = (cursor + 1) % steps, then the check of the cap
        Advance(t, b, what, log) ==
            [s |-> [t EXCEPT !.lanes[lane_i].step_cursor = (cursor + 1) % steps],
             o |-> b, brk |-> Len(b) >= max_out, pos |-> cursor, what |-> what,
             sched |-> log]
        Cut(t, b, log) ==
            [s |-> t, o |-> b, brk |-> TRUE, pos |-> cursor, what |-> "cut", sched |-> log]
    IN  Eval(LAMBDA n :
          IF ~euclid_hit(cursor, steps, pulses, rotation) THEN Advance(n, o, "rest", <<>>)
          ELSE Eval2(LAMBDA mod_step, mod_hash :
            IF lane_should_drop(lane, mod_hash, mod_step) THEN Advance(n, o, "drop", <<>>)
            ELSE Eval(LAMBDA pool :
              IF Len(pool) = 0 THEN Advance(n, o, "empty", <<>>)
              ELSE Eval3(LAMBDA note, vel, gate_pct :
                Eval(LAMBDA sch :
                       IF sch.ok
                       THEN Advance(sch.s, sch.o, "note",
                                    ScheduleLog(note, gate_pct, n, sch.s, o, sch.o))
                       ELSE Cut(sch.s, sch.o, ScheduleLog(note, gate_pct, n, sch.s, o, sch.o)),
                     schedule_note(n, o, note, vel, gate_pct, max_out)),
                clamp_int(apply_lane_note_random(lane, select_lane_note(lane, pool), pool,
                                                 mod_hash, mod_step)
                          + clamp_int(lane.octave, -3, 3) * 12
                          + lane_random_octave_offset(lane, mod_hash, mod_step)
                          + clamp_int(n.octave, -3, 3) * 12, 0, 127),
                lane_step_velocity(n, lane, lane_i, mod_step),
                lane_step_gate(n, lane, lane_i, mod_step)),
              build_register_pool(n, MAX_POOL_NOTES)),
            IF pulse_idx >= 0 THEN pulse_idx ELSE cursor,
            lane_modifier_hash(n, lane_i)),
        [s EXCEPT !.lanes[lane_i] = lane])

\* lanes lane_i..LANE_COUNT; pos and what collect, per lane, the position
\* evaluated (-1: not evaluated) and what happened there
RECURSIVE LaneLoop(_, _, _, _, _, _, _)
LaneLoop(s, o, lane_i, max_out, pos, what, sched) ==
    IF lane_i > LANE_COUNT
    THEN [s |-> s, o |-> o, pos |-> pos, what |-> what, sched |-> sched]
    ELSE IF ~s.lanes[lane_i].enabled
         THEN LaneLoop(s, o, lane_i + 1, max_out, pos, what, sched)
    ELSE LET Rest(r, p, w, c) ==
                 IF r.brk THEN [s |-> r.s, o |-> r.o, pos |-> p, what |-> w, sched |-> c]
                 ELSE LaneLoop(r.s, r.o, lane_i + 1, max_out, p, w, c)
             Logged(r) == Eval3(LAMBDA p, w, c : Rest(r, p, w, c),
                                [pos EXCEPT ![lane_i] = r.pos],
                                [what EXCEPT ![lane_i] = r.what],
                                sched \o r.sched)
         IN  Eval(Logged, LaneStep(s, o, lane_i, max_out))

run_step(s0, max_out) ==
    LET Log(s, r) ==
            [before |-> Cursors(s), after |-> Cursors(r.s),
             enabled |-> [i \in 1..LANE_COUNT |-> s.lanes[i].enabled],
             steps |-> [i \in 1..LANE_COUNT |-> clamp_int(s.lanes[i].steps, 1, 128)],
             pos |-> r.pos, what |-> r.what, sched |-> r.sched,
             active |-> s.active_notes, physical |-> s.physical_notes,
             running |-> s.phrase_running, cap |-> max_out]
    IN  IF max_out < 1 THEN [s |-> s0, o |-> <<>>, ev |-> <<>>]
        ELSE Eval(LAMBDA s :
                    \* should_advance
                    IF ~(s.phrase_running \/ s.retrigger_mode = "cont")
                    THEN [s |-> s, o |-> <<>>, ev |-> <<>>]
                    ELSE Eval(LAMBDA r : [s |-> r.s, o |-> r.o, ev |-> <<Log(s, r)>>],
                              LaneLoop(s, <<>>, 1, max_out,
                                       [i \in 1..LANE_COUNT |-> -1],
                                       [i \in 1..LANE_COUNT |-> "off"], <<>>)),
                  update_phrase_running(apply_pending_note_set(s0)))

\* process_clock_tick with no delay: the signal is pending at once
process_clock_tick_undelayed(s0, max_out) ==
    IF max_out < 1 THEN [s |-> s0, o |-> <<>>]
    ELSE LET Counted(v) ==
                 LET total == v.s.clock_tick_total + 1
                     counter == total % v.s.clocks_per_step
                     c == [v.s EXCEPT !.clock_tick_total = total, !.clock_counter = counter]
                     d == IF counter = 0
                          THEN [c EXCEPT
                                  !.pending_step_triggers = Min(@ + 1, MAX_PENDING_STEP_TRIGGERS)]
                          ELSE c
                 IN  [s |-> d, o |-> v.o]
         IN  Eval(Counted, advance_voice_timers_clock(s0, <<>>, max_out))

\* process_clock_tick counting the due steps without a limit
process_clock_tick_unbounded(s0, max_out) ==
    IF max_out < 1 THEN [s |-> s0, o |-> <<>>]
    ELSE LET moved == s0.delayed_step_triggers > 0
             a == IF moved
                  THEN [s0 EXCEPT
                          !.pending_step_triggers = @ + s0.delayed_step_triggers,
                          !.delayed_step_triggers = 0]
                  ELSE s0
             Counted(v) ==
                 LET total == v.s.clock_tick_total + 1
                     counter == total % v.s.clocks_per_step
                     c == [v.s EXCEPT !.clock_tick_total = total, !.clock_counter = counter]
                     d == IF counter = 0
                          THEN [c EXCEPT !.delayed_step_triggers = @ + 1]
                          ELSE c
                 IN  [s |-> d, o |-> v.o]
         IN  Eval(Counted, advance_voice_timers_clock(a, <<>>, max_out))

process_clock_tick(s0, max_out) ==
    IF max_out < 1 THEN [s |-> s0, o |-> <<>>]
    ELSE LET moved == s0.delayed_step_triggers > 0
             a == IF moved
                  THEN [s0 EXCEPT
                          !.pending_step_triggers =
                              Min(@ + s0.delayed_step_triggers, MAX_PENDING_STEP_TRIGGERS),
                          !.delayed_step_triggers = 0]
                  ELSE s0
             Counted(v) ==
                 LET total == v.s.clock_tick_total + 1
                     counter == total % v.s.clocks_per_step
                     c == [v.s EXCEPT !.clock_tick_total = total, !.clock_counter = counter]
                     d == IF counter = 0
                          THEN [c EXCEPT
                                  !.delayed_step_triggers = Min(@ + 1, MAX_PENDING_STEP_TRIGGERS),
                                  !.pending_step_triggers = Min(@, MAX_PENDING_STEP_TRIGGERS)]
                          ELSE c
                 IN  [s |-> d, o |-> v.o]
         IN  Eval(Counted, advance_voice_timers_clock(a, <<>>, max_out))

\* ------------------------------------------------------------------------
\* Parameters.  A key is a record: PlainKey(name) for the key `name`, and
\* LaneKey(n, suffix) for a key of the form lane<n>_<suffix>, n any number.
\* A value is the string itself for the string parameters and atoi(val)
\* for the numeric ones.
\* ------------------------------------------------------------------------
PlainKey(name) == [lane |-> FALSE, n |-> 0, name |-> name]
LaneKey(n, suffix) == [lane |-> TRUE, n |-> n, name |-> suffix]

\* parse_lane_key taking an index outside the lanes for the nearest lane
parse_lane_key_nearest(key) ==
    IF ~key.lane THEN 0
    ELSE clamp_int(key.n, 1, LANE_COUNT)

\* the lane index (1-based) when the key parses as a lane key, 0 otherwise
parse_lane_key(key) ==
    IF ~key.lane THEN 0
    ELSE IF key.n < 1 \/ key.n > LANE_COUNT THEN 0
    ELSE key.n

set_oct_rng_from_string(lane, v) ==
    IF v \in {"+1", "-1", "+-1", "+2", "-2", "+-2"} THEN [lane EXCEPT !.oct_rng = v] ELSE lane

\* set_lane_param without the closing clamp of pulses to steps
set_lane_param_unclamped(s, lane_i, suffix, val) ==
    IF suffix = "steps" THEN [s EXCEPT !.lanes[lane_i].steps = clamp_int(val, 1, 128)]
    ELSE IF suffix = "pulses" THEN [s EXCEPT !.lanes[lane_i].pulses = clamp_int(val, 0, 128)]
    ELSE IF suffix = "rotation" THEN [s EXCEPT !.lanes[lane_i].rotation = clamp_int(val, 0, 127)]
    ELSE IF suffix = "enabled" THEN [s EXCEPT !.lanes[lane_i].enabled = (val = "on")]
    ELSE s

set_lane_param(s, lane_i, suffix, val) ==
    LET lane == s.lanes[lane_i]
        Clamped(a) ==
            [s EXCEPT !.lanes[lane_i] = [a EXCEPT !.pulses = clamp_int(a.pulses, 0, a.steps)]]
    IN  Eval(Clamped,
             CASE suffix = "enabled" -> [lane EXCEPT !.enabled = (val = "on")]
               [] suffix = "steps" -> [lane EXCEPT !.steps = clamp_int(val, 1, 128)]
               [] suffix = "pulses" -> [lane EXCEPT !.pulses = clamp_int(val, 0, 128)]
               [] suffix = "rotation" -> [lane EXCEPT !.rotation = clamp_int(val, 0, 127)]
               [] suffix = "note" -> [lane EXCEPT !.note_step = clamp_int(val, 1, MAX_POOL_NOTES)]
               [] suffix = "octave" -> [lane EXCEPT !.octave = clamp_int(val, -3, 3)]
               [] suffix = "n_rnd" -> [lane EXCEPT !.note_rnd = clamp_int(val, 0, 100)]
               [] suffix \in {"n_seed", "seed"} -> [lane EXCEPT !.seed = clamp_int(val, 0, 65535)]
               [] suffix = "velocity" -> [lane EXCEPT !.velocity = clamp_int(val, 0, 127)]
               [] suffix = "gate" -> [lane EXCEPT !.gate = clamp_int(val, 0, 1600)]
               [] suffix = "mod_len" -> [lane EXCEPT !.mod_len = clamp_int(val, 0, 64)]
               [] suffix = "drop" -> [lane EXCEPT !.drop = clamp_int(val, 0, 100)]
               [] suffix = "drop_seed" -> [lane EXCEPT !.drop_seed = clamp_int(val, 0, 65535)]
               [] suffix = "swap" -> [lane EXCEPT !.swap = clamp_int(val, 0, 100)]
               [] suffix = "swap_seed" -> [lane EXCEPT !.swap_seed = clamp_int(val, 0, 65535)]
               [] suffix \in {"oct", "oct_rnd"} -> [lane EXCEPT !.oct = clamp_int(val, 0, 100)]
               [] suffix = "oct_seed" -> [lane EXCEPT !.oct_seed = clamp_int(val, 0, 65535)]
               [] suffix = "oct_rng" -> set_oct_rng_from_string(lane, val)
               [] suffix = "vel_rnd" -> [lane EXCEPT !.vel_rnd = clamp_int(val, 0, 127)]
               [] suffix = "vel_seed" -> [lane EXCEPT !.vel_seed = clamp_int(val, 0, 65535)]
               [] suffix = "gate_rnd" -> [lane EXCEPT !.gate_rnd = clamp_int(val, 0, 1600)]
               [] suffix = "gate_seed" -> [lane EXCEPT !.gate_seed = clamp_int(val, 0, 65535)]
               [] suffix = "time_rnd" -> [lane EXCEPT !.time_rnd = clamp_int(val, 0, 100)]
               [] suffix = "time_seed" -> [lane EXCEPT !.time_seed = clamp_int(val, 0, 65535)]
               [] OTHER -> lane)

set_rate_from_string(s, v) == IF v \in Rates THEN [s EXCEPT !.rate = v] ELSE s

ScaleNames ==
    {"major", "natural_minor", "harmonic_minor", "melodic_minor", "dorian", "phrygian",
     "lydian", "mixolydian", "locrian", "pentatonic_major", "pentatonic_minor", "blues",
     "whole_tone", "chromatic"}

set_scale_mode_from_string(s, v) == IF v \in ScaleNames THEN [s EXCEPT !.scale_mode = v] ELSE s

set_held_order_from_string(s, v) ==
    [s EXCEPT !.held_order = IF v \in {"down", "played", "rand"} THEN v ELSE "up"]

SetSync(s, val) ==
    IF val = "clock"
    THEN recalc_clock_timing(
            IF s.sync_mode # "clock"
            THEN [s EXCEPT !.sync_mode = "clock", !.clock_running = TRUE,
                           !.clock_counter = 0, !.clock_tick_total = 0,
                           !.pending_step_triggers = 0, !.delayed_step_triggers = 0]
            ELSE s)
    ELSE IF s.sync_mode # "internal"
         THEN LET Timed(b) ==
                      [b EXCEPT !.samples_until_step_f =
                                    IF b.step_interval_base_f > 0 THEN b.step_interval_base_f ELSE FX,
                                !.swing_phase = 0]
                  Switched(a) ==
                      Eval(Timed, IF a.sample_rate > 0 THEN recalc_timing(a, a.sample_rate) ELSE a)
              IN  Eval(Switched,
                       [s EXCEPT !.sync_mode = "internal", !.clock_counter = 0,
                                 !.clock_tick_total = 0, !.pending_step_triggers = 0,
                                 !.delayed_step_triggers = 0, !.internal_sample_total = 0])
         ELSE s

\* ------------------------------------------------------------------------
\* The exported state.  A state document is the sequence of the entries
\* "key":value of the JSON object, in the order of the text; an entry is
\* [key, str, val] with str telling a quoted string from a number.  No value
\* the program writes or reads spells a quoted key, so strstr finds "key"
\* at the first entry of that key.  The caller's buffer is taken to be large
\* enough for the document.
\* ------------------------------------------------------------------------
append_state_string(json, key, val) == Append(json, [key |-> key, str |-> TRUE, val |-> val])

append_state_int(json, key, val) == Append(json, [key |-> key, str |-> FALSE, val |-> val])

\* the value printed for the suffix
get_lane_param(s, lane_i, suffix) ==
    LET lane == s.lanes[lane_i]
    IN  CASE suffix = "enabled" -> IF lane.enabled THEN "on" ELSE "off"
          [] suffix = "steps" -> lane.steps
          [] suffix = "pulses" -> lane.pulses
          [] suffix = "rotation" -> lane.rotation
          [] suffix = "note" -> lane.note_step
          [] suffix = "octave" -> lane.octave
          [] suffix = "n_rnd" -> lane.note_rnd
          [] suffix \in {"n_seed", "seed"} -> lane.seed
          [] suffix = "velocity" -> lane.velocity
          [] suffix = "gate" -> lane.gate
          [] suffix = "mod_len" -> lane.mod_len
          [] suffix = "drop" -> lane.drop
          [] suffix = "drop_seed" -> lane.drop_seed
          [] suffix = "swap" -> lane.swap
          [] suffix = "swap_seed" -> lane.swap_seed
          [] suffix \in {"oct", "oct_rnd"} -> lane.oct
          [] suffix = "oct_seed" -> lane.oct_seed
          [] suffix = "oct_rng" -> lane.oct_rng
          [] suffix = "vel_rnd" -> lane.vel_rnd
          [] suffix = "vel_seed" -> lane.vel_seed
          [] suffix = "gate_rnd" -> lane.gate_rnd
          [] suffix = "gate_seed" -> lane.gate_seed
          [] suffix = "time_rnd" -> lane.time_rnd
          [] suffix = "time_seed" -> lane.time_seed

LaneIntSuffixes ==
    <<"steps", "pulses", "rotation", "note", "octave", "oct_rnd", "oct_seed", "velocity",
      "gate", "drop", "drop_seed", "n_rnd", "n_seed">>

\* json with the integers of the suffixes i.. of the lane appended in order
LaneStateFrom(json, s, lane_i, i) ==
    json \o [k \in 1..(Len(LaneIntSuffixes) + 1 - i) |->
                append_state_int(<<>>, LaneKey(lane_i, LaneIntSuffixes[i + k - 1]),
                                 get_lane_param(s, lane_i, LaneIntSuffixes[i + k - 1]))[1]]

RECURSIVE LanesStateFrom(_, _, _)
LanesStateFrom(json, s, lane_i) ==
    IF lane_i > LANE_COUNT THEN json
    ELSE Eval(LAMBDA lane_json : LanesStateFrom(lane_json, s, lane_i + 1),
              LaneStateFrom(
                  append_state_string(
                      append_state_string(json, LaneKey(lane_i, "enabled"),
                                          IF s.lanes[lane_i].enabled THEN "on" ELSE "off"),
                      LaneKey(lane_i, "oct_rng"), s.lanes[lane_i].oct_rng),
                  s, lane_i, 1))

build_state_json(s) ==
    LanesStateFrom(
        << [key |-> PlainKey("register_mode"), str |-> TRUE, val |-> s.register_mode],
           [key |-> PlainKey("root_note"), str |-> FALSE, val |-> s.root_note],
           [key |-> PlainKey("octave"), str |-> FALSE, val |-> s.octave],
           [key |-> PlainKey("scale_rng"), str |-> FALSE, val |-> s.scale_range],
           [key |-> PlainKey("scale_mode"), str |-> TRUE, val |-> s.scale_mode],
           [key |-> PlainKey("held_order"), str |-> TRUE, val |-> s.held_order],
           [key |-> PlainKey("held_order_seed"), str |-> FALSE, val |-> s.held_order_seed],
           [key |-> PlainKey("play_mode"), str |-> TRUE,
            val |-> IF s.latch THEN "latch" ELSE "hold"],
           [key |-> PlainKey("retrigger_mode"), str |-> TRUE,
            val |-> IF s.retrigger_mode = "cont" THEN "cont" ELSE "restart"],
           [key |-> PlainKey("rate"), str |-> TRUE, val |-> s.rate],
           [key |-> PlainKey("rand_cycle"), str |-> FALSE, val |-> s.rand_cycle],
           [key |-> PlainKey("global_velocity"), str |-> FALSE, val |-> s.global_velocity],
           [key |-> PlainKey("global_gate"), str |-> FALSE, val |-> s.global_gate],
           [key |-> PlainKey("global_v_rnd"), str |-> FALSE, val |-> s.global_v_rnd],
           [key |-> PlainKey("global_g_rnd"), str |-> FALSE, val |-> s.global_g_rnd],
           [key |-> PlainKey("global_rnd_seed"), str |-> FALSE, val |-> s.global_rnd_seed],
           [key |-> PlainKey("sync"), str |-> TRUE, val |-> s.sync_mode],
           [key |-> PlainKey("bpm"), str |-> FALSE, val |-> s.bpm],
           [key |-> PlainKey("swing"), str |-> FALSE, val |-> s.swing],
           [key |-> PlainKey("max_voices"), str |-> FALSE, val |-> s.max_voices] >>,
        s, 1)

\* the index of the first entry of the key, 0 when there is none
JsonFind(json, key) ==
    IF \E i \in 1..Len(json) : json[i].key = key
    THEN CHOOSE i \in 1..Len(json) :
             json[i].key = key /\ \A j \in 1..(i - 1) : json[j].key # key
    ELSE 0

\* [found, val]: found is the C return as a condition (the string's length
\* for json_get_string, so an empty string is not found)
json_get_string(json, key) ==
    LET i == JsonFind(json, key)
    IN  IF i = 0 THEN [found |-> FALSE, val |-> ""]
        ELSE IF ~json[i].str THEN [found |-> FALSE, val |-> ""]
        ELSE [found |-> json[i].val # "", val |-> json[i].val]

\* atoi of a quoted string is 0
json_get_int(json, key) ==
    LET i == JsonFind(json, key)
    IN  IF i = 0 THEN [found |-> FALSE, val |-> 0]
        ELSE [found |-> TRUE, val |-> IF json[i].str THEN 0 ELSE json[i].val]

\* the keys apply_state_json reads, in its order
RECURSIVE LaneImportKeys(_)
LaneImportKeys(lane_i) ==
    IF lane_i > LANE_COUNT THEN <<>>
    ELSE << [key |-> LaneKey(lane_i, "enabled"), str |-> TRUE],
            [key |-> LaneKey(lane_i, "oct_rng"), str |-> TRUE] >>
         \o [i \in 1..Len(LaneIntSuffixes) |->
                [key |-> LaneKey(lane_i, LaneIntSuffixes[i]), str |-> FALSE]]
         \o LaneImportKeys(lane_i + 1)

ImportKeys ==
    [i \in 1..7 |->
        [key |-> PlainKey(<<"register_mode", "scale_mode", "held_order", "play_mode",
                            "retrigger_mode", "rate", "sync">>[i]), str |-> TRUE]]
    \o [i \in 1..13 |->
        [key |-> PlainKey(<<"root_note", "octave", "scale_rng", "held_order_seed",
                            "rand_cycle", "global_velocity", "global_gate", "global_v_rnd",
                            "global_g_rnd", "global_rnd_seed", "bpm", "swing",
                            "max_voices">>[i]), str |-> FALSE]]
    \o LaneImportKeys(1)

RECURSIVE eucalypso_set_param(_, _, _)

\* the keys ImportKeys[lo..hi] applied in order (the range is halved to keep
\* the evaluation shallow)
RECURSIVE ApplyFrom(_, _, _, _)
ApplyFrom(s, json, lo, hi) ==
    IF lo < hi
    THEN Eval(LAMBDA t : ApplyFrom(t, json, ((lo + hi) \div 2) + 1, hi),
              ApplyFrom(s, json, lo, (lo + hi) \div 2))
    ELSE Eval2(LAMBDA k, got : IF got.found THEN eucalypso_set_param(s, k, got.val) ELSE s,
               ImportKeys[lo].key,
               IF ImportKeys[lo].str THEN json_get_string(json, ImportKeys[lo].key)
               ELSE json_get_int(json, ImportKeys[lo].key))

apply_state_json(s, json) == ApplyFrom(s, json, 1, Len(ImportKeys))

eucalypso_set_param(s, k, val) ==
    IF ~k.lane /\ k.name = "state" THEN apply_state_json(s, val)
    ELSE IF parse_lane_key(k) > 0
    THEN update_phrase_running(set_lane_param(s, parse_lane_key(k), k.name, val))
    ELSE LET key == IF k.lane THEN "lane?" ELSE k.name
             Internal(b) ==
                 update_phrase_running(
                     IF key \in {"rate", "bpm"} /\ b.sync_mode = "internal" /\ b.sample_rate > 0
                     THEN realign_internal_phase(recalc_timing(b, b.sample_rate)) ELSE b)
             Assigned(a) ==
                 Eval(Internal, IF key = "rate" /\ a.sync_mode = "clock" /\ a.clock_running
                                THEN realign_clock_phase(a) ELSE a)
         IN  Eval(Assigned,
               CASE key = "register_mode" ->
                        [s EXCEPT !.register_mode = IF val = "scale" THEN "scale" ELSE "held"]
                 [] key = "root_note" -> [s EXCEPT !.root_note = clamp_int(val, 0, 11)]
                 [] key = "octave" -> [s EXCEPT !.octave = clamp_int(val, -3, 3)]
                 [] key = "scale_rng" -> [s EXCEPT !.scale_range = clamp_int(val, 1, MAX_POOL_NOTES)]
                 [] key = "scale_mode" -> set_scale_mode_from_string(s, val)
                 [] key = "held_order" -> set_held_order_from_string(s, val)
                 [] key = "held_order_seed" -> [s EXCEPT !.held_order_seed = clamp_int(val, 0, 65535)]
                 [] key = "play_mode" -> set_latch(s, val = "latch")
                 [] key = "retrigger_mode" ->
                        LET new == IF val = "cont" THEN "cont" ELSE "restart"
                            t == [s EXCEPT !.retrigger_mode = new]
                        IN  IF new # s.retrigger_mode /\ new = "restart" THEN reset_phrase(t) ELSE t
                 [] key = "rate" ->
                        recalc_clock_timing([set_rate_from_string(s, val) EXCEPT !.timing_dirty = TRUE])
                 [] key = "rand_cycle" -> [s EXCEPT !.rand_cycle = clamp_int(val, 1, 128)]
                 [] key = "global_velocity" -> [s EXCEPT !.global_velocity = clamp_int(val, 1, 127)]
                 [] key = "global_gate" -> [s EXCEPT !.global_gate = clamp_int(val, 1, 1600)]
                 [] key = "global_v_rnd" -> [s EXCEPT !.global_v_rnd = clamp_int(val, 0, 127)]
                 [] key = "global_g_rnd" -> [s EXCEPT !.global_g_rnd = clamp_int(val, 0, 1600)]
                 [] key = "global_rnd_seed" -> [s EXCEPT !.global_rnd_seed = clamp_int(val, 0, 65535)]
                 [] key = "sync" -> SetSync(s, val)
                 [] key = "bpm" -> [s EXCEPT !.bpm = clamp_int(val, 40, 240), !.timing_dirty = TRUE]
                 [] key = "swing" -> [s EXCEPT !.swing = clamp_int(val, 0, 100)]
                 [] key = "max_voices" -> [s EXCEPT !.max_voices = clamp_int(val, 1, MAX_VOICES)]
                 [] OTHER -> s)

\* ------------------------------------------------------------------------
\* Construction
\* ------------------------------------------------------------------------
DefaultLane(i) ==
    [enabled |-> (i = 1), steps |-> 16, pulses |-> 4, rotation |-> 0, note_step |-> i,
     octave |-> 0, note_rnd |-> 0, seed |-> 1, velocity |-> 0, gate |-> 0,
     mod_len |-> 0, drop |-> 0, drop_seed |-> 1, swap |-> 0, swap_seed |-> 1,
     oct |-> 0, oct_seed |-> 1, oct_rng |-> "+-1", vel_rnd |-> 0, vel_seed |-> 1,
     gate_rnd |-> 0, gate_seed |-> 1, time_rnd |-> 0, time_seed |-> 1,
     step_cursor |-> 0]

eucalypso_create_instance ==
    update_phrase_running(recalc_clock_timing(
      [rate |-> "1/16", sync_mode |-> "internal", register_mode |-> "held",
       held_order |-> "up", scale_mode |-> "major", retrigger_mode |-> "restart",
       root_note |-> 0, octave |-> 0, scale_range |-> MAX_POOL_NOTES,
       held_order_seed |-> 1, rand_cycle |-> 16, global_velocity |-> 100, global_gate |-> 80,
       global_v_rnd |-> 0, global_g_rnd |-> 0, global_rnd_seed |-> 1,
       bpm |-> DEFAULT_BPM, swing |-> 0, latch |-> FALSE, max_voices |-> 8,
       lanes |-> [i \in 1..LANE_COUNT |-> DefaultLane(i)],
       physical_notes |-> <<>>, physical_as_played |-> <<>>, note_set_dirty |-> FALSE,
       active_notes |-> <<>>, as_played |-> <<>>, latch_ready_replace |-> FALSE,
       phrase_running |-> FALSE,
       sample_rate |-> 0, timing_dirty |-> TRUE, step_interval_base |-> 1,
       swing_phase |-> 0, step_interval_base_f |-> FX, samples_until_step_f |-> 0,
       internal_sample_total |-> 0,
       clock_counter |-> 0, clocks_per_step |-> 6, clock_running |-> TRUE,
       clock_tick_total |-> 0, pending_step_triggers |-> 0, delayed_step_triggers |-> 0,
       midi_transport_active |-> FALSE,
       voices |-> <<>>]))

\* ------------------------------------------------------------------------
\* The entry points.  Each returns [s, o, ev]: the instance, the events
\* written (the call's return value is Len(o)) and the log of the steps it
\* evaluated.  in_msg is the sequence of the message's bytes.
\* ------------------------------------------------------------------------
MIDI_START == 250
MIDI_CONTINUE == 251
MIDI_STOP == 252
MIDI_CLOCK == 248

Byte(in_msg, i) == IF Len(in_msg) >= i THEN in_msg[i] ELSE 0

\* samples_until_step_f = next_step_interval(inst), clamped to one sample
RearmInterval(s) ==
    Eval(LAMBDA n : [n.s EXCEPT !.samples_until_step_f = Max(n.interval, FX)],
         next_step_interval(s))

\* eucalypso_process_midi anchoring the first note under an active transport too
eucalypso_process_midi_anchor_always(s, in_msg, max_out) ==
    LET status == in_msg[1]
        type == status - (status % 16)
        quiet(t) == [s |-> t, o |-> <<>>, ev |-> <<>>]
        silent(r) == [s |-> r.s, o |-> r.o, ev |-> <<>>]
        stop(t) == Eval(silent, handle_transport_stop(t, max_out))
        note == in_msg[2]
        vel == in_msg[3]
        live_before == live_note_count(s)
        \* the immediate step of the first note, whatever the transport
        anchor(on) == /\ on.register_mode = "held"
                      /\ live_before = 0 /\ live_note_count(on) > 0 /\ max_out > 0
                      /\ (on.sync_mode = "clock" => on.clock_running)
        Restarted(b) ==
            quiet(reset_phrase([b EXCEPT !.swing_phase = 0, !.internal_sample_total = 0,
                                         !.samples_until_step_f =
                                             IF b.step_interval_base_f > 0
                                             THEN b.step_interval_base_f ELSE FX]))
        Active(a) == Eval(Restarted, IF a.timing_dirty /\ a.sample_rate > 0
                                     THEN recalc_timing(a, a.sample_rate) ELSE a)
    IN  IF Len(in_msg) < 1 THEN quiet(s)
        ELSE IF s.sync_mode = "clock" /\ status = MIDI_START
        THEN quiet(reset_phrase([s EXCEPT !.midi_transport_active = TRUE,
                                          !.clock_running = TRUE, !.clock_counter = 0,
                                          !.clock_tick_total = 0,
                                          !.pending_step_triggers = 0,
                                          !.delayed_step_triggers = 0]))
        ELSE IF s.sync_mode = "clock" /\ status = MIDI_CONTINUE
        THEN quiet([s EXCEPT !.midi_transport_active = TRUE, !.clock_running = TRUE,
                             !.pending_step_triggers = 0, !.delayed_step_triggers = 0])
        ELSE IF s.sync_mode = "clock" /\ status = MIDI_STOP
        THEN stop([s EXCEPT !.midi_transport_active = FALSE, !.clock_running = FALSE,
                            !.clock_counter = 0, !.pending_step_triggers = 0,
                            !.delayed_step_triggers = 0])
        ELSE IF s.sync_mode = "clock" /\ status = MIDI_CLOCK
        THEN IF ~s.clock_running THEN quiet(s)
             ELSE Eval(silent, process_clock_tick(s, max_out))
        ELSE IF s.sync_mode # "clock" /\ status \in {MIDI_START, MIDI_CONTINUE}
        THEN Eval(Active, [s EXCEPT !.midi_transport_active = TRUE])
        ELSE IF s.sync_mode # "clock" /\ status = MIDI_STOP
        THEN stop([s EXCEPT !.midi_transport_active = FALSE])
        ELSE IF type \in {NOTE_ON, NOTE_OFF} /\ Len(in_msg) >= 3
        THEN IF type = NOTE_ON /\ vel > 0
             THEN Eval(LAMBDA on :
                         IF anchor(on)
                         THEN Eval(LAMBDA r : [s |-> IF on.sync_mode = "internal"
                                                     THEN RearmInterval(r.s) ELSE r.s,
                                               o |-> r.o, ev |-> r.ev],
                                   run_step(on, max_out))
                         ELSE quiet(on),
                       note_on(s, note))
             ELSE quiet(note_off(s, note))
        ELSE IF max_out < 1 THEN quiet(s)
        ELSE [s |-> s, o |-> <<Ev(in_msg[1], Byte(in_msg, 2), Byte(in_msg, 3))>>, ev |-> <<>>]

eucalypso_process_midi(s, in_msg, max_out) ==
    LET status == in_msg[1]
        type == status - (status % 16)
        quiet(t) == [s |-> t, o |-> <<>>, ev |-> <<>>]
        silent(r) == [s |-> r.s, o |-> r.o, ev |-> <<>>]
        stop(t) == Eval(silent, handle_transport_stop(t, max_out))
        note == in_msg[2]
        vel == in_msg[3]
        live_before == live_note_count(s)
        \* the immediate step of the first note (only sync modes clock and internal exist)
        anchor(on) == /\ on.register_mode = "held" /\ ~on.midi_transport_active
                      /\ live_before = 0 /\ live_note_count(on) > 0 /\ max_out > 0
                      /\ (on.sync_mode = "clock" => on.clock_running)
        Restarted(b) ==
            quiet(reset_phrase([b EXCEPT !.swing_phase = 0, !.internal_sample_total = 0,
                                         !.samples_until_step_f =
                                             IF b.step_interval_base_f > 0
                                             THEN b.step_interval_base_f ELSE FX]))
        Active(a) == Eval(Restarted, IF a.timing_dirty /\ a.sample_rate > 0
                                     THEN recalc_timing(a, a.sample_rate) ELSE a)
    IN  IF Len(in_msg) < 1 THEN quiet(s)
        ELSE IF s.sync_mode = "clock" /\ status = MIDI_START
        THEN quiet(reset_phrase([s EXCEPT !.midi_transport_active = TRUE,
                                          !.clock_running = TRUE, !.clock_counter = 0,
                                          !.clock_tick_total = 0,
                                          !.pending_step_triggers = 0,
                                          !.delayed_step_triggers = 0]))
        ELSE IF s.sync_mode = "clock" /\ status = MIDI_CONTINUE
        THEN quiet([s EXCEPT !.midi_transport_active = TRUE, !.clock_running = TRUE,
                             !.pending_step_triggers = 0, !.delayed_step_triggers = 0])
        ELSE IF s.sync_mode = "clock" /\ status = MIDI_STOP
        THEN stop([s EXCEPT !.midi_transport_active = FALSE, !.clock_running = FALSE,
                            !.clock_counter = 0, !.pending_step_triggers = 0,
                            !.delayed_step_triggers = 0])
        ELSE IF s.sync_mode = "clock" /\ status = MIDI_CLOCK
        THEN IF ~s.clock_running THEN quiet(s)
             ELSE Eval(silent, process_clock_tick(s, max_out))
        ELSE IF s.sync_mode # "clock" /\ status \in {MIDI_START, MIDI_CONTINUE}
        THEN Eval(Active, [s EXCEPT !.midi_transport_active = TRUE])
        ELSE IF s.sync_mode # "clock" /\ status = MIDI_STOP
        THEN stop([s EXCEPT !.midi_transport_active = FALSE])
        ELSE IF type \in {NOTE_ON, NOTE_OFF} /\ Len(in_msg) >= 3
        THEN IF type = NOTE_ON /\ vel > 0
             THEN Eval(LAMBDA on :
                         IF anchor(on)
                         THEN Eval(LAMBDA r : [s |-> IF on.sync_mode = "internal"
                                                     THEN RearmInterval(r.s) ELSE r.s,
                                               o |-> r.o, ev |-> r.ev],
                                   run_step(on, max_out))
                         ELSE quiet(on),
                       note_on(s, note))
             ELSE quiet(note_off(s, note))
        ELSE IF max_out < 1 THEN quiet(s)
        ELSE [s |-> s, o |-> <<Ev(in_msg[1], Byte(in_msg, 2), Byte(in_msg, 3))>>, ev |-> <<>>]

\* one pass of while (pending_step_triggers > 0 && count < max_out): the
\* body when the condition holds, nothing once it has failed
DrainOne(t, max_out) ==
    IF ~(t.s.pending_step_triggers > 0 /\ Len(t.o) < max_out) THEN t
    ELSE Eval(LAMBDA r : [s |-> [r.s EXCEPT !.pending_step_triggers = @ - 1],
                          o |-> t.o \o r.o, ev |-> t.ev \o r.ev],
              run_step(t.s, max_out - Len(t.o)))

\* n passes of the loop, the first half of them before the second
RECURSIVE DrainTimes(_, _, _)
DrainTimes(t, n, max_out) ==
    IF n <= 0 THEN t
    ELSE IF n = 1 THEN DrainOne(t, max_out)
    ELSE Eval(LAMBDA m : DrainTimes(m, n - n \div 2, max_out),
              DrainTimes(t, n \div 2, max_out))

\* while (pending_step_triggers > 0 && count < max_out): each pass takes one
\* pending trigger, so the loop ends within pending_step_triggers passes
DrainPending(s, o, ev, max_out) ==
    DrainTimes([s |-> s, o |-> o, ev |-> ev], s.pending_step_triggers, max_out)

\* while (samples_until_step_f <= 0.0 && count < max_out)
RECURSIVE DrainSamples(_, _, _, _)
DrainSamples(s, o, ev, max_out) ==
    IF ~(s.samples_until_step_f <= 0 /\ Len(o) < max_out) THEN [s |-> s, o |-> o, ev |-> ev]
    ELSE LET Rest(r, n) ==
                 DrainSamples([n.s EXCEPT !.samples_until_step_f = Max(@ + n.interval, FX)],
                              o \o r.o, ev \o r.ev, max_out)
             Stepped(r) == Eval(LAMBDA n : Rest(r, n), next_step_interval(r.s))
         IN  Eval(Stepped, run_step(s, max_out - Len(o)))

\* the body of if (live_count == 0) taken in restart mode only
TickIdle_restart_only(t, max_out) ==
    LET live_count == IF t.s.register_mode = "scale"
                      THEN IF any_enabled_lane(t.s) /\ live_note_count(t.s) > 0 THEN 1 ELSE 0
                      ELSE live_note_count(t.s)
        keep_progressing == t.s.retrigger_mode = "cont"
        Cleared(f) ==
            LET g == IF f.s.sync_mode = "clock"
                     THEN [f.s EXCEPT !.pending_step_triggers = 0,
                                      !.delayed_step_triggers = 0]
                     ELSE f.s
                h == IF ~g.latch THEN [clear_active(g) EXCEPT !.note_set_dirty = FALSE] ELSE g
            IN  [s |-> [h EXCEPT !.phrase_running = FALSE], o |-> f.o,
                 done |-> h.register_mode = "held"]
    IN  IF live_count = 0 /\ ~keep_progressing
        THEN Eval(Cleared, IF Len(t.s.voices) > 0 THEN flush_all_voices(t.s, t.o, max_out)
                           ELSE t)
        ELSE [s |-> t.s, o |-> t.o, done |-> FALSE]

\* the body of if (live_count == 0) in eucalypso_tick, on the instance and
\* the buffer t; done is the early return
TickIdle(t, max_out) ==
    LET live_count == IF t.s.register_mode = "scale"
                      THEN IF any_enabled_lane(t.s) /\ live_note_count(t.s) > 0 THEN 1 ELSE 0
                      ELSE live_note_count(t.s)
        keep_progressing == t.s.retrigger_mode = "cont"
        Cleared(f) ==
            LET g == IF f.s.sync_mode = "clock" /\ ~keep_progressing
                     THEN [f.s EXCEPT !.pending_step_triggers = 0,
                                      !.delayed_step_triggers = 0]
                     ELSE f.s
                h == IF ~g.latch THEN [clear_active(g) EXCEPT !.note_set_dirty = FALSE] ELSE g
            IN  [s |-> [h EXCEPT !.phrase_running = FALSE], o |-> f.o,
                 done |-> ~keep_progressing /\ h.register_mode = "held"]
    IN  IF live_count = 0
        THEN Eval(Cleared, IF Len(t.s.voices) > 0 THEN flush_all_voices(t.s, t.o, max_out)
                           ELSE t)
        ELSE [s |-> t.s, o |-> t.o, done |-> FALSE]

eucalypso_tick(s0, frames, sample_rate, max_out) ==
    IF frames < 0 \/ max_out < 1 THEN [s |-> s0, o |-> <<>>, ev |-> <<>>]
    ELSE Eval(LAMBDA e :
           IF Len(e.o) >= max_out THEN [s |-> e.s, o |-> e.o, ev |-> <<>>]
           ELSE Eval(LAMBDA t :
                  IF e.s.sync_mode = "internal" /\ Len(t.o) >= max_out
                  THEN [s |-> t.s, o |-> t.o, ev |-> <<>>]
                  ELSE Eval(LAMBDA q :
                         IF q.done THEN [s |-> q.s, o |-> q.o, ev |-> <<>>]
                         ELSE Eval(LAMBDA u :
                                IF u.sync_mode = "clock"
                                THEN DrainPending(
                                         [u EXCEPT !.pending_step_triggers =
                                                       Min(@, MAX_PENDING_STEP_TRIGGERS)],
                                         q.o, <<>>, max_out)
                                ELSE DrainSamples(
                                         [u EXCEPT !.internal_sample_total = @ + frames,
                                                   !.samples_until_step_f = @ - frames * FX],
                                         q.o, <<>>, max_out),
                              update_phrase_running(q.s)),
                       TickIdle(t, max_out)),
                IF e.s.sync_mode = "internal"
                THEN advance_voice_timers_samples(e.s, e.o, frames, max_out) ELSE e),
         enforce_voice_limit(IF s0.timing_dirty \/ s0.sample_rate # sample_rate
                             THEN recalc_timing(s0, sample_rate) ELSE s0,
                             <<>>, max_out))

\* ------------------------------------------------------------------------
\* The state machine: one instance driven by its host.  The host calls
\* eucalypso_process_midi, eucalypso_tick and eucalypso_set_param one at a
\* time (single-threaded), each call running to completion.
\* ------------------------------------------------------------------------
VARIABLES
    inst,       \* the instance (eucalypso_instance_t)
    out,        \* the events the last call wrote, in order
    call,       \* the last call: [op, arg, cap]
    evals,      \* the steps the last call evaluated (log records of run_step)
    sounding,   \* history: pitches with a note-on and no later note-off, in note-on order
    armed,      \* history: live notes went 0 -> nonzero in restart mode and are still
                \* live, no step evaluated since
    hist        \* history of the transport: [pulses, stopped], the clock pulses sent
                \* since the last Start and whether a Stop came after the last
                \* Start or Continue (kept by the transport actions below)

vars == <<inst, out, call, evals, sounding, armed, hist>>

\* bounds of the exploration
MaxClockTotal == 4
MaxSampleTotal == 9
BigCap == 8
SAMPLE_RATE == 48

Pitches == {60}
Caps == {0, 1, BigCap}
Frames == {3}

RECURSIVE Configure(_, _)
Configure(s, params) ==
    IF Len(params) = 0 THEN s
    ELSE Eval(LAMBDA t : Configure(t, Tail(params)),
              eucalypso_set_param(s, params[1][1], params[1][2]))

\* four lanes an octave apart: lane 1 fires on every other step, the others
\* on every step; a gate of one clock pulse; three voices; MIDI clock
VoiceParams ==
    << <<PlainKey("rate"), "1/32">>,
       <<PlainKey("global_gate"), 34>>,
       <<PlainKey("max_voices"), 3>>,
       <<LaneKey(1, "steps"), 2>>, <<LaneKey(1, "pulses"), 1>>,
       <<LaneKey(2, "enabled"), "on">>, <<LaneKey(2, "note"), 1>>,
       <<LaneKey(2, "steps"), 2>>, <<LaneKey(2, "pulses"), 2>>,
       <<LaneKey(2, "octave"), 1>>,
       <<LaneKey(3, "enabled"), "on">>, <<LaneKey(3, "note"), 1>>,
       <<LaneKey(3, "steps"), 1>>, <<LaneKey(3, "pulses"), 1>>,
       <<LaneKey(3, "octave"), 2>>,
       <<LaneKey(4, "enabled"), "on">>, <<LaneKey(4, "note"), 1>>,
       <<LaneKey(4, "steps"), 1>>, <<LaneKey(4, "pulses"), 1>>,
       <<LaneKey(4, "octave"), 3>>,
       <<PlainKey("sync"), "clock">> >>

VoiceConfig == Configure(eucalypso_create_instance, VoiceParams)

\* two lanes, the gate randomised around its minimum (with this seed lane 1
\* draws a gate of 0% at position 0 and of 1% at position 1); MIDI clock
GateParams ==
    << <<PlainKey("rate"), "1/32">>,
       <<PlainKey("global_gate"), 1>>,
       <<PlainKey("global_g_rnd"), 1>>,
       <<PlainKey("global_rnd_seed"), 4>>,
       <<PlainKey("max_voices"), 3>>,
       <<LaneKey(1, "steps"), 2>>, <<LaneKey(1, "pulses"), 2>>,
       <<LaneKey(2, "enabled"), "on">>, <<LaneKey(2, "note"), 1>>,
       <<LaneKey(2, "steps"), 3>>, <<LaneKey(2, "pulses"), 3>>,
       <<LaneKey(2, "octave"), 1>>,
       <<PlainKey("sync"), "clock">> >>

GateConfig == Configure(eucalypso_create_instance, GateParams)

\* two lanes of lengths 2 and 3, the second one always dropped; one
\* configuration for each pairing of sync mode and play mode, in both
\* retrigger modes
ModeParams(sync, play, retrigger) ==
    << <<PlainKey("rate"), "1/32">>,
       <<PlainKey("global_gate"), 34>>,
       <<PlainKey("max_voices"), 3>>,
       <<LaneKey(1, "steps"), 2>>, <<LaneKey(1, "pulses"), 1>>,
       <<LaneKey(2, "enabled"), "on">>,
       <<LaneKey(2, "steps"), 3>>, <<LaneKey(2, "pulses"), 3>>,
       <<LaneKey(2, "drop"), 100>>,
       <<PlainKey("play_mode"), play>>,
       <<PlainKey("retrigger_mode"), retrigger>>,
       <<PlainKey("sync"), sync>> >>

ModeConfigs ==
    {Configure(eucalypso_create_instance, ModeParams(m[1], m[2], m[3])) :
        m \in {<<"clock", "hold", "restart">>, <<"internal", "latch", "restart">>,
               <<"clock", "latch", "cont">>, <<"internal", "hold", "cont">>}}

InitFrom(configs) ==
    /\ inst \in configs
    /\ out = <<>>
    /\ call = [op |-> "create", arg |-> 0, cap |-> 0]
    /\ evals = <<>>
    /\ sounding = <<>>
    /\ armed = FALSE
    /\ hist = [pulses |-> 0, stopped |-> FALSE]

Init == InitFrom({VoiceConfig})

InitGate == InitFrom({GateConfig})

InitModes == InitFrom(ModeConfigs)

\* the pitches sounding after the events o, given those sounding before
RECURSIVE SoundAfter(_, _, _)
SoundAfter(snd, o, i) ==
    IF i > Len(o) THEN snd
    ELSE LET e == o[i]
             rest == SelectSeq(snd, LAMBDA p : p # e[2])
         IN  SoundAfter(IF e[1] = NOTE_ON THEN Append(rest, e[2])
                        ELSE IF e[1] = NOTE_OFF THEN rest
                        ELSE snd, o, i + 1)

\* a call that turned s into r.s, evaluating the steps r.ev
ArmedAfter(s, r) ==
    LET raised == s.retrigger_mode = "restart" /\ live_note_count(s) = 0
                  /\ live_note_count(r.s) > 0
    IN  IF r.s.retrigger_mode # "restart" \/ live_note_count(r.s) = 0 THEN FALSE
        ELSE IF Len(r.ev) > 0 THEN FALSE
        ELSE armed \/ raised

\* a call returned r
Returned(r) ==
    /\ inst' = r.s
    /\ out' = r.o
    /\ evals' = r.ev
    /\ sounding' = SoundAfter(sounding, r.o, 1)
    /\ armed' = ArmedAfter(inst, r)

Commit(r) == Returned(r) /\ hist' = hist

Midi(msg, cap) == \E r \in {eucalypso_process_midi(inst, msg, cap)} : Commit(r)

NoteOn ==
    \E n \in Pitches, cap \in Caps :
        /\ Midi(<<NOTE_ON, n, 100>>, cap)
        /\ call' = [op |-> "note_on", arg |-> n, cap |-> cap]

\* a note-off, Start and Continue write no event whatever the capacity is
NoteOff ==
    \E n \in Pitches :
        /\ Midi(<<NOTE_OFF, n, 0>>, BigCap)
        /\ call' = [op |-> "note_off", arg |-> n, cap |-> BigCap]

Start ==
    /\ Midi(<<MIDI_START>>, BigCap)
    /\ call' = [op |-> "start", arg |-> 0, cap |-> BigCap]

Continue ==
    /\ Midi(<<MIDI_CONTINUE>>, BigCap)
    /\ call' = [op |-> "continue", arg |-> 0, cap |-> BigCap]

Stop ==
    \E cap \in Caps :
        /\ Midi(<<MIDI_STOP>>, cap)
        /\ call' = [op |-> "stop", arg |-> 0, cap |-> cap]

Clock ==
    \E cap \in Caps :
        /\ inst.clock_tick_total < MaxClockTotal
        /\ Midi(<<MIDI_CLOCK>>, cap)
        /\ call' = [op |-> "clock", arg |-> 0, cap |-> cap]

Tick ==
    \E frames \in Frames, cap \in Caps :
        /\ inst.internal_sample_total + frames <= MaxSampleTotal
        /\ \E r \in {eucalypso_tick(inst, frames, SAMPLE_RATE, cap)} : Commit(r)
        /\ call' = [op |-> "tick", arg |-> frames, cap |-> cap]

SetParams == {<<PlainKey("max_voices"), 1>>, <<PlainKey("max_voices"), 3>>}

SetParam ==
    \E p \in SetParams :
        /\ \E t \in {eucalypso_set_param(inst, p[1], p[2])} :
               Commit([s |-> t, o |-> <<>>, ev |-> <<>>])
        /\ call' = [op |-> "set_param", arg |-> p, cap |-> 0]

Next == NoteOn \/ NoteOff \/ Start \/ Continue \/ Stop \/ Clock \/ Tick \/ SetParam

Spec == Init /\ [][Next]_vars

SpecGate == InitGate /\ [][Next]_vars

SpecModes == InitModes /\ [][Next]_vars

\* ------------------------------------------------------------------------
\* The trigger pattern of one lane, position by position.  The lane's
\* steps, pulses and rotation are drawn from their ranges; EuclidStep tests
\* the position under the lane's cursor as run_step does (the call of
\* euclid_hit, then the cursor's advance), for one cycle of the pattern.
\* ------------------------------------------------------------------------
EuclidMaxSteps == 32

EuclidLanes ==
    {[DefaultLane(1) EXCEPT !.steps = st, !.pulses = p, !.rotation = r] :
        st \in 1..EuclidMaxSteps, p \in 0..EuclidMaxSteps, r \in 0..(EuclidMaxSteps - 1)}

InitEuclid ==
    /\ inst \in {[eucalypso_create_instance EXCEPT !.lanes[1] = l] :
                    l \in {e \in EuclidLanes : e.pulses <= e.steps /\ e.rotation < e.steps}}
    /\ out = <<>>
    /\ call = [op |-> "create", arg |-> 0, cap |-> 0]
    /\ evals = <<>>
    /\ sounding = <<>>
    /\ armed = FALSE
    /\ hist = [pulses |-> 0, stopped |-> FALSE]

EuclidStep ==
    /\ Len(evals) < inst.lanes[1].steps
    /\ \E lane \in {inst.lanes[1]} :
          /\ evals' = Append(evals,
                 [cursor |-> lane.step_cursor,
                  hit |-> euclid_hit(lane.step_cursor, lane.steps, lane.pulses, lane.rotation)])
          /\ inst' = [inst EXCEPT !.lanes[1].step_cursor = (lane.step_cursor + 1) % lane.steps]
          /\ call' = [op |-> "euclid_hit", arg |-> lane.step_cursor, cap |-> 0]
    /\ UNCHANGED <<out, sounding, armed, hist>>

SpecEuclid == InitEuclid /\ [][EuclidStep]_vars

\* ------------------------------------------------------------------------
\* The lane parameters.  A freshly constructed instance receives set_param
\* calls that write steps, pulses and rotation of the first lane, in any
\* order and with values below, inside and above the ranges, imports of
\* state documents (one writes the last lane), and note-ons and note-offs,
\* which evaluate steps (run_step stores the clamped steps, pulses and
\* rotation of the enabled lanes).
\* ------------------------------------------------------------------------
LaneValues == {0, 2, 200}

LaneKeys == {LaneKey(1, suffix) : suffix \in {"steps", "pulses", "rotation"}}

\* the exported state of a fresh instance; a document that names pulses
\* before steps, both out of range; a document of one key
StateDocs ==
    {build_state_json(eucalypso_create_instance),
     << [key |-> LaneKey(1, "pulses"), str |-> FALSE, val |-> 200],
        [key |-> LaneKey(1, "steps"), str |-> FALSE, val |-> 0],
        [key |-> LaneKey(1, "rotation"), str |-> FALSE, val |-> 2] >>,
     << [key |-> LaneKey(LANE_COUNT, "steps"), str |-> FALSE, val |-> 2] >>}

InitLanes == InitFrom({eucalypso_create_instance})

SetLaneParam ==
    \E k \in LaneKeys, v \in LaneValues :
        /\ \E t \in {eucalypso_set_param(inst, k, v)} :
               Commit([s |-> t, o |-> <<>>, ev |-> <<>>])
        /\ call' = [op |-> "set_param", arg |-> k, cap |-> 0]

ImportState ==
    \E json \in StateDocs :
        /\ \E t \in {eucalypso_set_param(inst, PlainKey("state"), json)} :
               Commit([s |-> t, o |-> <<>>, ev |-> <<>>])
        /\ call' = [op |-> "set_param", arg |-> PlainKey("state"), cap |-> 0]

NextLanes == SetLaneParam \/ ImportState \/ NoteOn \/ NoteOff

SpecLanes == InitLanes /\ [][NextLanes]_vars

\* ------------------------------------------------------------------------
\* The scale register.  Root note, scale, requested size and order are
\* drawn from their ranges, with no key held or with one key held;
\* BuildPool builds the register pool as run_step does for a lane that
\* fires (continuous mode evaluates steps with no key held too); the pool is
\* written to out.
\* ------------------------------------------------------------------------
ScaleSizes == {1, 2, MAX_POOL_NOTES}

ScaleParams(root, scale, size, order) ==
    << <<PlainKey("register_mode"), "scale">>,
       <<PlainKey("retrigger_mode"), "cont">>,
       <<PlainKey("root_note"), root>>,
       <<PlainKey("scale_mode"), scale>>,
       <<PlainKey("scale_rng"), size>>,
       <<PlainKey("held_order"), order>> >>

ScaleConfigs ==
    {Configure(eucalypso_create_instance, ScaleParams(p[1], p[2], p[3], p[4])) :
        p \in (0..11) \X ScaleNames \X ScaleSizes \X {"up", "down", "rand"}}

InitScale == InitFrom(ScaleConfigs \cup {note_on(c, 60) : c \in ScaleConfigs})

BuildPool ==
    /\ call.op = "create"
    /\ out' = build_register_pool(inst, MAX_POOL_NOTES)
    /\ call' = [op |-> "build_register_pool", arg |-> MAX_POOL_NOTES, cap |-> 0]
    /\ UNCHANGED <<inst, evals, sounding, armed, hist>>

SpecScale == InitScale /\ [][BuildPool]_vars

\* ------------------------------------------------------------------------
\* The parameter interface against a running instance.  Between the calls
\* of process_midi and tick the host reads the exported state and applies
\* it to the instance it was read from (ReapplyState), or sets a key that
\* is not a parameter (SetUnknown).
\* ------------------------------------------------------------------------
ParamConfigs ==
    {Configure(eucalypso_create_instance, ModeParams(m[1], m[2], m[3])) :
        m \in {<<"clock", "hold", "restart">>, <<"internal", "hold", "cont">>}}

InitParams == InitFrom(ParamConfigs)

\* get_param "state" followed by set_param "state" with the document read
ReapplyState ==
    /\ \E json \in {build_state_json(inst)} :
           \E t \in {eucalypso_set_param(inst, PlainKey("state"), json)} :
               Commit([s |-> t, o |-> <<>>, ev |-> <<>>])
    /\ call' = [op |-> "set_state", arg |-> 0, cap |-> 0]

\* keys that are not parameters: an unknown name, lane indices below and
\* above the lanes, a lane key of an unknown suffix
UnknownKeys ==
    {PlainKey("unknown"), LaneKey(0, "steps"), LaneKey(LANE_COUNT + 1, "steps"),
     LaneKey(1, "unknown")}

SetUnknown ==
    \E k \in UnknownKeys :
        /\ \E t \in {eucalypso_set_param(inst, k, 7)} :
               Commit([s |-> t, o |-> <<>>, ev |-> <<>>])
        /\ call' = [op |-> "set_unknown", arg |-> k, cap |-> 0]

NextParams ==
    \/ NoteOn \/ NoteOff \/ Start \/ Continue \/ Stop \/ Clock \/ Tick
    \/ ReapplyState \/ SetUnknown

SpecParams == InitParams /\ [][NextParams]_vars

\* ------------------------------------------------------------------------
\* The fixed capacities.  One key more than the held-note list takes, all
\* four lanes on every step an octave apart with max_voices at the capacity
\* of the voice list, under MIDI clock with no pulse sent: every note-on
\* that finds no live note anchors a step of four voices, and no voice ever
\* expires.  The keys are pressed in the order of KeyPitches (the next new
\* key or the last one again) and released from the top, or the last key of
\* all is released; more than one key is held only while at most one step
\* has been played.  No Stop is sent, which would flush the voices.
\* ------------------------------------------------------------------------
KeyPitches == [i \in 1..(MAX_HELD_NOTES + 1) |-> IF i <= 12 THEN i - 1 ELSE 35 + i]

KeyParams(play) ==
    << <<PlainKey("max_voices"), MAX_VOICES>>,
       <<LaneKey(1, "steps"), 1>>, <<LaneKey(1, "pulses"), 1>>,
       <<LaneKey(2, "enabled"), "on">>, <<LaneKey(2, "note"), 1>>,
       <<LaneKey(2, "steps"), 1>>, <<LaneKey(2, "pulses"), 1>>,
       <<LaneKey(2, "octave"), 1>>,
       <<LaneKey(3, "enabled"), "on">>, <<LaneKey(3, "note"), 1>>,
       <<LaneKey(3, "steps"), 1>>, <<LaneKey(3, "pulses"), 1>>,
       <<LaneKey(3, "octave"), 2>>,
       <<LaneKey(4, "enabled"), "on">>, <<LaneKey(4, "note"), 1>>,
       <<LaneKey(4, "steps"), 1>>, <<LaneKey(4, "pulses"), 1>>,
       <<LaneKey(4, "octave"), 3>>,
       <<PlainKey("play_mode"), play>>,
       <<PlainKey("sync"), "clock">> >>

KeyConfigs == {Configure(eucalypso_create_instance, KeyParams(play)) : play \in {"hold", "latch"}}

InitKeys == InitFrom(KeyConfigs)

\* the keys (indices of KeyPitches) among the notes arr
KeysIn(arr) == {i \in DOMAIN KeyPitches : arr_contains(arr, KeyPitches[i])}

\* the highest key of ks, 0 if there is none
TopKey(ks) == IF ks = {} THEN 0 ELSE CHOOSE i \in ks : \A j \in ks : j <= i

\* the highest key held or sounding
KeyTop(s) ==
    TopKey(KeysIn(s.physical_notes)
           \cup KeysIn([i \in 1..Len(s.voices) |-> s.voices[i].note]))

KeyOn ==
    \E i \in DOMAIN KeyPitches :
        /\ i \in {KeyTop(inst), KeyTop(inst) + 1}
        /\ Len(inst.physical_notes) = 0 \/ Len(inst.voices) <= LANE_COUNT
        /\ Midi(<<NOTE_ON, KeyPitches[i], 100>>, BigCap)
        /\ call' = [op |-> "note_on", arg |-> KeyPitches[i], cap |-> BigCap]

KeyOff ==
    \E i \in DOMAIN KeyPitches :
        /\ i \in {TopKey(KeysIn(inst.physical_notes)), MAX_HELD_NOTES + 1}
        /\ Midi(<<NOTE_OFF, KeyPitches[i], 0>>, BigCap)
        /\ call' = [op |-> "note_off", arg |-> KeyPitches[i], cap |-> BigCap]

NextKeys == KeyOn \/ KeyOff

SpecKeys == InitKeys /\ [][NextKeys]_vars

\* ------------------------------------------------------------------------
\* Numeric values as set_param receives them: decimal text.  A text is
\* [neg, digits]; atoi reads it as strtol does and narrows the long to int.
\* eucalypso_set_param above takes the int that atoi returned.  A number
\* that int cannot hold is undefined behaviour of atoi: where long has 64
\* bits the narrowing keeps the low 32 bits, where long has 32 bits strtol
\* saturates; both outcomes are kept.
\* ------------------------------------------------------------------------
Text(neg, digits) == [neg |-> neg, digits |-> digits]

\* the number the digits spell when it is at most 2^31 - 1, otherwise -1
RECURSIVE Magnitude(_, _, _)
Magnitude(digits, i, acc) ==
    IF i > Len(digits) THEN acc
    ELSE IF acc > (2147483647 - digits[i]) \div 10 THEN -1
    ELSE Magnitude(digits, i + 1, acc * 10 + digits[i])

\* the digits' number modulo 2^32
RECURSIVE Low32(_, _, _)
Low32(digits, i, acc) ==
    IF i > Len(digits) THEN acc
    ELSE Eval(LAMBDA m : Low32(digits, i + 1,
                               <<(m[1] + ((m[2] + digits[i]) \div W16)) % W16,
                                 (m[2] + digits[i]) % W16>>),
              Mul32(acc, U32(10)))

\* the int whose bits are x
AsInt(x) ==
    IF x[1] < 32768 THEN x[1] * W16 + x[2]
    ELSE (0 - ((65535 - x[1]) * W16 + (65535 - x[2]))) - 1

\* the two's complement of x
Neg32(x) ==
    IF x = <<0, 0>> THEN x
    ELSE IF x[2] = 0 THEN <<W16 - x[1], 0>>
    ELSE <<65535 - x[1], W16 - x[2]>>

\* the outcomes of atoi(text)
atoi(text) ==
    LET m == Magnitude(text.digits, 1, 0)
        low == Low32(text.digits, 1, <<0, 0>>)
    IN  IF m >= 0 THEN {IF text.neg THEN 0 - m ELSE m}
        ELSE {AsInt(IF text.neg THEN Neg32(low) ELSE low),
              IF text.neg THEN (0 - 2147483647) - 1 ELSE 2147483647}

\* the numeric keys of the globals and of lane 2, and the values written:
\* -5, 0, 1, 41, 100, 300, 70000, 2^31 - 1, 2^31, 3000000000, -3000000000,
\* 2^32 + 41
NumberKeys ==
    {PlainKey(k) : k \in {"bpm", "swing", "max_voices", "root_note", "octave", "scale_rng",
                          "global_velocity", "global_gate"}}
    \cup {LaneKey(2, k) : k \in {"steps", "note", "drop", "n_rnd", "oct_rnd"}}

NumberTexts ==
    {Text(TRUE, <<5>>), Text(FALSE, <<0>>), Text(FALSE, <<1>>), Text(FALSE, <<4, 1>>),
     Text(FALSE, <<1, 0, 0>>), Text(FALSE, <<3, 0, 0>>), Text(FALSE, <<7, 0, 0, 0, 0>>),
     Text(FALSE, <<2, 1, 4, 7, 4, 8, 3, 6, 4, 7>>),
     Text(FALSE, <<2, 1, 4, 7, 4, 8, 3, 6, 4, 8>>),
     Text(FALSE, <<3, 0, 0, 0, 0, 0, 0, 0, 0, 0>>),
     Text(TRUE, <<3, 0, 0, 0, 0, 0, 0, 0, 0, 0>>),
     Text(FALSE, <<4, 2, 9, 4, 9, 6, 7, 3, 3, 7>>)}

InitClamp == InitFrom({eucalypso_create_instance, VoiceConfig, GateConfig})

\* one set_param of a numeric key on the configured instance
SetNumber ==
    \E k \in NumberKeys, text \in NumberTexts :
        /\ call.op = "create"
        /\ \E v \in atoi(text) :
               \E t \in {eucalypso_set_param(inst, k, v)} :
                   Commit([s |-> t, o |-> <<>>, ev |-> <<>>])
        /\ call' = [op |-> "set_param", arg |-> <<k, text>>, cap |-> 0]

SpecClamp == InitClamp /\ [][SetNumber]_vars

\* ------------------------------------------------------------------------
\* The transport.  The actions below send Start, Continue, Stop and clock
\* pulses and keep the history hist: the pulses sent since the last Start
\* while the MIDI clock was running, and whether a Stop came after the last
\* Start or Continue.  Two instances under MIDI clock, of rates 1/32 and
\* 1/16T, and one under the internal clock.
\* ------------------------------------------------------------------------
MaxPulses == 7

TransportConfigs ==
    {Configure(eucalypso_create_instance, ModeParams("clock", "hold", "restart")),
     Configure(eucalypso_create_instance,
               ModeParams("clock", "hold", "cont") \o << <<PlainKey("rate"), "1/16T">> >>),
     Configure(eucalypso_create_instance, ModeParams("internal", "hold", "restart"))}

InitTransport == InitFrom(TransportConfigs)

SendStart ==
    /\ \E r \in {eucalypso_process_midi(inst, <<MIDI_START>>, BigCap)} : Returned(r)
    /\ call' = [op |-> "start", arg |-> 0, cap |-> BigCap]
    /\ hist' = [pulses |-> 0, stopped |-> FALSE]

SendContinue ==
    /\ \E r \in {eucalypso_process_midi(inst, <<MIDI_CONTINUE>>, BigCap)} : Returned(r)
    /\ call' = [op |-> "continue", arg |-> 0, cap |-> BigCap]
    /\ hist' = [hist EXCEPT !.stopped = FALSE]

SendStop ==
    /\ \E r \in {eucalypso_process_midi(inst, <<MIDI_STOP>>, BigCap)} : Returned(r)
    /\ call' = [op |-> "stop", arg |-> 0, cap |-> BigCap]
    /\ hist' = [hist EXCEPT !.stopped = TRUE]

SendClock ==
    \E cap \in {0, BigCap} :
        /\ hist.pulses < MaxPulses
        /\ \E r \in {eucalypso_process_midi(inst, <<MIDI_CLOCK>>, cap)} : Returned(r)
        /\ call' = [op |-> "clock", arg |-> 0, cap |-> cap]
        /\ hist' = IF inst.sync_mode = "clock" /\ inst.clock_running
                   THEN [hist EXCEPT !.pulses = @ + 1] ELSE hist

NextTransport ==
    \/ SendStart \/ SendContinue \/ SendStop \/ SendClock
    \/ NoteOn \/ NoteOff \/ Tick

SpecTransport == InitTransport /\ [][NextTransport]_vars

\* ------------------------------------------------------------------------
\* Hold mode under configuration changes: keys, ticks and changes of the
\* register mode and of the lane switches, under the internal clock
\* ------------------------------------------------------------------------
HoldConfigs ==
    {Configure(eucalypso_create_instance, ModeParams("internal", "hold", retrigger)) :
        retrigger \in {"restart", "cont"}}

InitHold == InitFrom(HoldConfigs)

HoldParams ==
    {<<PlainKey("register_mode"), "scale">>, <<PlainKey("register_mode"), "held">>,
     <<LaneKey(1, "enabled"), "off">>, <<LaneKey(1, "enabled"), "on">>,
     <<LaneKey(2, "enabled"), "off">>, <<LaneKey(2, "enabled"), "on">>}

SetHold ==
    \E p \in HoldParams :
        /\ \E t \in {eucalypso_set_param(inst, p[1], p[2])} :
               Commit([s |-> t, o |-> <<>>, ev |-> <<>>])
        /\ call' = [op |-> "set_param", arg |-> p, cap |-> 0]

NextHold == NoteOn \/ NoteOff \/ Tick \/ SetHold

SpecHold == InitHold /\ [][NextHold]_vars

\* ------------------------------------------------------------------------
\* Voice expiry: two lanes sounding two pitches for two pulses (or two
\* samples), keys, transport, and clock pulses and ticks that keep arriving
\* with room for at least one event
\* ------------------------------------------------------------------------
ExpiryParams(sync) ==
    << <<PlainKey("rate"), "1/32">>,
       <<PlainKey("global_gate"), 67>>,
       <<LaneKey(1, "steps"), 1>>, <<LaneKey(1, "pulses"), 1>>,
       <<LaneKey(2, "enabled"), "on">>, <<LaneKey(2, "note"), 1>>,
       <<LaneKey(2, "steps"), 1>>, <<LaneKey(2, "pulses"), 1>>,
       <<LaneKey(2, "octave"), 1>>,
       <<PlainKey("sync"), sync>> >>

ExpiryConfigs ==
    {Configure(eucalypso_create_instance, ExpiryParams(sync)) : sync \in {"clock", "internal"}}

InitExpiry == InitFrom(ExpiryConfigs)

ExpiryCaps == {1, BigCap}

ExpiryPulse ==
    \E cap \in ExpiryCaps :
        /\ inst.sync_mode = "clock"
        /\ inst.clock_tick_total < MaxClockTotal
        /\ Midi(<<MIDI_CLOCK>>, cap)
        /\ call' = [op |-> "clock", arg |-> 0, cap |-> cap]

ExpiryTick ==
    \E frames \in Frames, cap \in ExpiryCaps :
        /\ inst.internal_sample_total + frames <= MaxSampleTotal
        /\ \E r \in {eucalypso_tick(inst, frames, SAMPLE_RATE, cap)} : Commit(r)
        /\ call' = [op |-> "tick", arg |-> frames, cap |-> cap]

NextExpiry == NoteOn \/ NoteOff \/ Start \/ Stop \/ ExpiryPulse \/ ExpiryTick

\* clock pulses keep arriving under MIDI clock, ticks under the internal clock
SpecExpiry ==
    /\ InitExpiry
    /\ [][NextExpiry]_vars
    /\ WF_vars(ExpiryPulse)
    /\ WF_vars(inst.sync_mode = "internal" /\ ExpiryTick)

\* ------------------------------------------------------------------------
\* The pitch of a lane before the octave shifts.  Lane 1 has the note index,
\* the substitution amount and the seed drawn from their ranges; the pool is
\* the scale of the drawn range or the held notes 60, 64, 67 (none to all
\* three), taken up as a step takes them up.  SelectNote writes select_lane_note for a lane to out,
\* SubstituteNote what apply_lane_note_random makes of it at a modifier
\* step.
\* ------------------------------------------------------------------------
MaxModStep == 3

PickParams(register, note, n_rnd, seed, size) ==
    << <<PlainKey("register_mode"), register>>,
       <<PlainKey("scale_rng"), size>>,
       <<LaneKey(1, "note"), note>>,
       <<LaneKey(1, "n_rnd"), n_rnd>>,
       <<LaneKey(1, "seed"), seed>> >>

PickConfigs ==
    {Configure(eucalypso_create_instance, PickParams(p[1], p[2], p[3], p[4], p[5])) :
        p \in {"held", "scale"} \X {1, 2, 3, MAX_POOL_NOTES} \X {0, 50, 100} \X {0, 7}
              \X {1, 2, MAX_POOL_NOTES}}

\* the keys 60, 64, 67 pressed in this order, none to all three
Pressed(c) ==
    {c, note_on(c, 60), note_on(note_on(c, 60), 64),
     note_on(note_on(note_on(c, 60), 64), 67)}

\* the instance as run_step has it when it builds the pool
InitPick ==
    InitFrom({update_phrase_running(apply_pending_note_set(t)) :
                 t \in UNION {Pressed(c) : c \in PickConfigs}})

SelectNote ==
    \E lane_i \in 1..LANE_COUNT :
        /\ out' = <<select_lane_note(inst.lanes[lane_i],
                                     build_register_pool(inst, MAX_POOL_NOTES))>>
        /\ call' = [op |-> "select_lane_note", arg |-> lane_i, cap |-> 0]
        /\ UNCHANGED <<inst, evals, sounding, armed, hist>>

SubstituteNote ==
    \E lane_i \in 1..LANE_COUNT, mod_step \in 0..MaxModStep :
        /\ Len(build_register_pool(inst, MAX_POOL_NOTES)) > 0
        /\ \E pool \in {build_register_pool(inst, MAX_POOL_NOTES)} :
               out' = <<apply_lane_note_random(inst.lanes[lane_i],
                                               select_lane_note(inst.lanes[lane_i], pool),
                                               pool, lane_modifier_hash(inst, lane_i),
                                               mod_step)>>
        /\ call' = [op |-> "apply_lane_note_random", arg |-> lane_i, cap |-> mod_step]
        /\ UNCHANGED <<inst, evals, sounding, armed, hist>>

NextPick == SelectNote \/ SubstituteNote

SpecPick == InitPick /\ [][NextPick]_vars

\* ------------------------------------------------------------------------
\* The register pool under the keys.  One lane plays every step; the keys
\* of OrderPitches are pressed and released in any order, in hold and in
\* latch mode, in both register modes; the held order is set while the keys
\* are down.  MIDI clock with no pulse sent: a step is evaluated by the
\* note-on that anchors the phrase, and a tick with no live note clears up.
\* ------------------------------------------------------------------------
OrderPitches == {0, 64, 127}

OrderParams(register, play, size, root) ==
    << <<PlainKey("rate"), "1/32">>,
       <<PlainKey("global_gate"), 34>>,
       <<PlainKey("max_voices"), 1>>,
       <<LaneKey(1, "steps"), 1>>, <<LaneKey(1, "pulses"), 1>>,
       <<PlainKey("register_mode"), register>>,
       <<PlainKey("scale_rng"), size>>,
       <<PlainKey("root_note"), root>>,
       <<PlainKey("play_mode"), play>>,
       <<PlainKey("sync"), "clock">> >>

OrderConfigs ==
    {Configure(eucalypso_create_instance, OrderParams("held", play, MAX_POOL_NOTES, 0)) :
        play \in {"hold", "latch"}}
    \cup {Configure(eucalypso_create_instance, OrderParams("scale", "hold", p[1], p[2])) :
             p \in {1, 3, MAX_POOL_NOTES} \X {0, 11}}

InitOrder == InitFrom(OrderConfigs)

OrderOn ==
    \E n \in OrderPitches :
        /\ Midi(<<NOTE_ON, n, 100>>, BigCap)
        /\ call' = [op |-> "note_on", arg |-> n, cap |-> BigCap]

OrderOff ==
    \E n \in OrderPitches :
        /\ Midi(<<NOTE_OFF, n, 0>>, BigCap)
        /\ call' = [op |-> "note_off", arg |-> n, cap |-> BigCap]

SetOrder ==
    \E v \in {"up", "down", "played", "rand"} :
        /\ \E t \in {eucalypso_set_param(inst, PlainKey("held_order"), v)} :
               Commit([s |-> t, o |-> <<>>, ev |-> <<>>])
        /\ call' = [op |-> "set_param", arg |-> <<PlainKey("held_order"), v>>, cap |-> 0]

NextOrder == OrderOn \/ OrderOff \/ SetOrder \/ Stop \/ Tick

SpecOrder == InitOrder /\ [][NextOrder]_vars

\* ------------------------------------------------------------------------
\* Swing.  The internal clock at 48 samples a second and 120 beats a minute:
\* a step of rate 1/32 lasts 3 samples, one of rate 1/16T lasts 4, and a
\* swing of 50% moves a step of 3 samples by 0.75 sample (every value is a
\* multiple of 1/FX sample).  One lane plays every step, in hold mode and
\* held register mode, in both retrigger modes; the host sets the swing,
\* the rate and the tempo while the phrase plays.
\* ------------------------------------------------------------------------
SwingParams(retrigger) ==
    << <<PlainKey("rate"), "1/32">>,
       <<PlainKey("swing"), 50>>,
       <<PlainKey("global_gate"), 34>>,
       <<PlainKey("max_voices"), 1>>,
       <<LaneKey(1, "steps"), 1>>, <<LaneKey(1, "pulses"), 1>>,
       <<PlainKey("retrigger_mode"), retrigger>> >>

SwingConfigs ==
    {Configure(eucalypso_create_instance, SwingParams(retrigger)) :
        retrigger \in {"restart", "cont"}}

InitSwing == InitFrom(SwingConfigs)

SwingSettings ==
    {<<PlainKey("swing"), 0>>, <<PlainKey("swing"), 50>>,
     <<PlainKey("rate"), "1/32">>, <<PlainKey("rate"), "1/16T">>,
     <<PlainKey("bpm"), DEFAULT_BPM>>}

SetSwing ==
    \E p \in SwingSettings :
        /\ \E t \in {eucalypso_set_param(inst, p[1], p[2])} :
               Commit([s |-> t, o |-> <<>>, ev |-> <<>>])
        /\ call' = [op |-> "set_param", arg |-> p, cap |-> 0]

NextSwing == NoteOn \/ NoteOff \/ Start \/ Tick \/ SetSwing

SpecSwing == InitSwing /\ [][NextSwing]_vars

\* ------------------------------------------------------------------------
\* The phrase and its release: one lane sounding its pitch for two steps
\* (gate 200%), under both clocks and both retrigger modes; keys, Stop,
\* ticks, and changes of the register mode, of the play mode and of the
\* lane switch
\* ------------------------------------------------------------------------
PhraseParams(sync, retrigger) ==
    << <<PlainKey("rate"), "1/32">>,
       <<PlainKey("global_gate"), 200>>,
       <<PlainKey("max_voices"), 3>>,
       <<LaneKey(1, "steps"), 1>>, <<LaneKey(1, "pulses"), 1>>,
       <<PlainKey("retrigger_mode"), retrigger>>,
       <<PlainKey("sync"), sync>> >>

PhraseConfigs ==
    {Configure(eucalypso_create_instance, PhraseParams(sync, retrigger)) :
        sync \in {"clock", "internal"}, retrigger \in {"restart", "cont"}}

InitPhrase == InitFrom(PhraseConfigs)

PhraseSettings ==
    {<<PlainKey("register_mode"), "scale">>, <<PlainKey("register_mode"), "held">>,
     <<PlainKey("play_mode"), "latch">>, <<PlainKey("play_mode"), "hold">>,
     <<LaneKey(1, "enabled"), "off">>, <<LaneKey(1, "enabled"), "on">>}

SetPhrase ==
    \E p \in PhraseSettings :
        /\ \E t \in {eucalypso_set_param(inst, p[1], p[2])} :
               Commit([s |-> t, o |-> <<>>, ev |-> <<>>])
        /\ call' = [op |-> "set_param", arg |-> p, cap |-> 0]

NextPhrase == NoteOn \/ NoteOff \/ Stop \/ Tick \/ SetPhrase

SpecPhrase == InitPhrase /\ [][NextPhrase]_vars

\* the release of the keys: two lanes sounding two pitches for two steps
\* (gate 200%), under MIDI clock in restart mode and under the internal
\* clock in both retrigger modes; keys, clock pulses, ticks and changes of
\* max_voices
ReleaseParams(sync, retrigger) ==
    << <<PlainKey("rate"), "1/32">>,
       <<PlainKey("global_gate"), 200>>,
       <<PlainKey("max_voices"), 3>>,
       <<LaneKey(1, "steps"), 1>>, <<LaneKey(1, "pulses"), 1>>,
       <<LaneKey(2, "enabled"), "on">>, <<LaneKey(2, "note"), 1>>,
       <<LaneKey(2, "steps"), 1>>, <<LaneKey(2, "pulses"), 1>>,
       <<LaneKey(2, "octave"), 1>>,
       <<PlainKey("retrigger_mode"), retrigger>>,
       <<PlainKey("sync"), sync>> >>

ReleaseConfigs ==
    {Configure(eucalypso_create_instance, ReleaseParams(m[1], m[2])) :
        m \in {<<"clock", "restart">>, <<"internal", "restart">>, <<"internal", "cont">>}}

InitRelease == InitFrom(ReleaseConfigs)

NextRelease == NoteOn \/ NoteOff \/ Clock \/ Tick \/ SetParam

SpecRelease == InitRelease /\ [][NextRelease]_vars

\* ------------------------------------------------------------------------
\* The backlog of due steps: under MIDI clock the pulses keep arriving (a due
\* step every third pulse at rate 1/32), with a key held or none, while the
\* host stalls
\* ------------------------------------------------------------------------
MaxBacklogPulses == 200

BacklogParams(retrigger) ==
    << <<PlainKey("rate"), "1/32">>,
       <<PlainKey("global_gate"), 34>>,
       <<PlainKey("max_voices"), 1>>,
       <<LaneKey(1, "steps"), 1>>, <<LaneKey(1, "pulses"), 1>>,
       <<PlainKey("retrigger_mode"), retrigger>>,
       <<PlainKey("sync"), "clock">> >>

BacklogConfigs ==
    {Configure(eucalypso_create_instance, BacklogParams(retrigger)) :
        retrigger \in {"restart", "cont"}}

InitBacklog == InitFrom(BacklogConfigs)

BacklogClock ==
    /\ inst.clock_tick_total < MaxBacklogPulses
    /\ Midi(<<MIDI_CLOCK>>, BigCap)
    /\ call' = [op |-> "clock", arg |-> 0, cap |-> BigCap]

\* the host ticks while nothing is pending or when the backlog has reached
\* its limit
BacklogSizes == {0, MAX_PENDING_STEP_TRIGGERS}

BacklogTick ==
    \E cap \in Caps :
        /\ inst.pending_step_triggers \in BacklogSizes
        /\ \E r \in {eucalypso_tick(inst, 3, SAMPLE_RATE, cap)} : Commit(r)
        /\ call' = [op |-> "tick", arg |-> 3, cap |-> cap]

\* a key pressed before the first pulse, or none
BacklogKey == call.op = "create" /\ NoteOn

NextBacklog == BacklogClock \/ BacklogTick \/ BacklogKey

SpecBacklog == InitBacklog /\ [][NextBacklog]_vars

\* ------------------------------------------------------------------------
\* Properties
\* ------------------------------------------------------------------------
Range(seq) == {seq[i] : i \in 1..Len(seq)}

VoiceNotes(s) == [i \in 1..Len(s.voices) |-> s.voices[i].note]

NoteOffs(o) == SelectSeq(o, LAMBDA e : e[1] = NOTE_OFF)

NoteOns(o) == SelectSeq(o, LAMBDA e : e[1] = NOTE_ON)

\* C2: after every call the pitches with a note-on and no later note-off
\* are exactly the pitches of the voice list.
C2_Pairing == Range(sounding) = Range(VoiceNotes(inst))

\* the voices of s hold pairwise different pitches
NoDuplicateVoice(s) ==
    \A i, j \in 1..Len(s.voices) : s.voices[i].note = s.voices[j].note => i = j

\* the index of the first note-on of pitch p in o, 0 when there is none
FirstOn(o, p) ==
    LET K == {k \in 1..Len(o) : o[k][1] = NOTE_ON /\ o[k][2] = p}
    IN  IF K = {} THEN 0 ELSE CHOOSE k \in K : \A m \in K : k <= m

\* the number of note-offs of pitch p among the first k - 1 events of o
OffsBefore(o, p, k) == Cardinality({j \in 1..(k - 1) : o[j][1] = NOTE_OFF /\ o[j][2] = p})

\* C3: no two live voices hold the same pitch, and a call
\* that triggers a pitch that is sounding (a note-on written, no note-off
\* since) writes exactly one note-off of that pitch before the new note-on.
C3_Dedup ==
    [][/\ NoDuplicateVoice(inst')
       /\ \A p \in Range(sounding) :
              FirstOn(out', p) > 0 => OffsBefore(out', p, FirstOn(out', p)) = 1]_vars

Schedules == {evals[i].sched[j] : <<i, j>> \in
                 {x \in (1..Len(evals)) \X (1..LANE_COUNT) : x[2] <= Len(evals[x[1]].sched)}}

\* schedule_note found the voice list full and the pitch not sounding
Evicting(k) ==
    /\ Len(k.before) = k.limit
    /\ \A i \in 1..Len(k.before) : k.before[i].note # k.note

\* C5: the voice list is in order of creation (the order of the note-ons
\* not yet followed by a note-off), and a note of a pitch that is not
\* sounding, scheduled while the voice count equals max_voices, retires the
\* first, earliest created voice: its note-off is written first, then the
\* note-on when the buffer has room, and the other voices stay as they
\* were (pitch, remaining duration, order), the new voice after them.
C5_Fifo ==
    /\ VoiceNotes(inst) = sounding
    /\ \A k \in Schedules :
           Evicting(k) =>
               /\ Len(k.events) \in {1, 2}
               /\ k.events[1] = Ev(NOTE_OFF, k.before[1].note, 0)
               /\ Len(k.events) = 2 =>
                      /\ k.events[2][1] = NOTE_ON /\ k.events[2][2] = k.note
                      /\ Len(k.after) = Len(k.before)
                      /\ k.after[Len(k.after)].note = k.note
               /\ Len(k.events) = 1 => Len(k.after) = Len(k.before) - 1
               /\ SubSeq(k.after, 1, Len(k.before) - 1) = Tail(k.before)

\* a schedule_note that retired the oldest of three voices for a new pitch
C5_Witness ==
    \E k \in Schedules :
        /\ Evicting(k)
        /\ Len(k.before) = 3
        /\ Len(k.events) = 2
        /\ VoiceNotes(inst) = sounding
        /\ Len(k.after) = 3 /\ k.after[1] = k.before[2] /\ k.after[2] = k.before[3]

C7_StopClears ==
    call.op = "stop" =>
        /\ inst.physical_notes = <<>> /\ inst.physical_as_played = <<>>
        /\ inst.active_notes = <<>> /\ inst.as_played = <<>>
        /\ ~inst.note_set_dirty
        /\ ~inst.phrase_running
        /\ \A i \in 1..LANE_COUNT : inst.lanes[i].step_cursor = 0

\* a Stop in latch mode under the internal clock that found a voice live,
\* so after a step had moved the cursors
C7_Witness ==
    /\ call.op = "stop"
    /\ inst.latch /\ inst.sync_mode = "internal"
    /\ Len(NoteOffs(out)) > 0

\* a freshly constructed instance given the configuration of s
Fresh(s) ==
    Configure(eucalypso_create_instance,
              ModeParams(s.sync_mode, IF s.latch THEN "latch" ELSE "hold", s.retrigger_mode)
              \o << <<PlainKey("max_voices"), s.max_voices>> >>)

Started(s) == eucalypso_process_midi(s, <<MIDI_START>>, BigCap).s

\* the inputs of the futures compared: a note-on, a note-off, a clock pulse
\* and ticks of one and of three frames
FutureInputs ==
    {[op |-> "midi", msg |-> <<NOTE_ON, 60, 100>>], [op |-> "midi", msg |-> <<NOTE_OFF, 60, 0>>],
     [op |-> "midi", msg |-> <<MIDI_CLOCK>>], [op |-> "tick", frames |-> 1],
     [op |-> "tick", frames |-> 3]}

FutureLen == 2

Futures == [1..FutureLen -> FutureInputs]

Apply(s, in) ==
    IF in.op = "tick" THEN eucalypso_tick(s, in.frames, SAMPLE_RATE, BigCap)
    ELSE eucalypso_process_midi(s, in.msg, BigCap)

\* the events written call by call when s receives the inputs f[i..]
RECURSIVE Outputs(_, _, _)
Outputs(s, f, i) ==
    IF i > Len(f) THEN <<>>
    ELSE LET Rest(r) == <<r.o>> \o Outputs(r.s, f, i + 1)
         IN  Eval(Rest, Apply(s, f[i]))

\* C8: Stop is idempotent and restartable.  After a Stop that left no voice
\* (its buffer had room for every note-off), a second Stop, whatever its
\* cap, leaves the instance as it is, and Start yields for every sequence of
\* further inputs the events, call by call, that a freshly constructed
\* instance of the same configuration yields after Start.
C8_StopRestart ==
    (call.op = "stop" /\ Len(inst.voices) = 0) =>
        /\ \A cap \in Caps : eucalypso_process_midi(inst, <<MIDI_STOP>>, cap).s = inst
        /\ \A f \in Futures :
               Outputs(Started(inst), f, 1) = Outputs(Started(Fresh(inst)), f, 1)

\* the call raises the live note count from zero in restart mode
Raised == inst.retrigger_mode = "restart" /\ live_note_count(inst) = 0
          /\ live_note_count(inst') > 0

\* C9: in restart mode, when the live note count goes from zero to non-zero
\* (in this call, or in an earlier one with no step evaluated since), the
\* next step evaluated sees every lane's step cursor at 0, and every enabled
\* lane evaluates its pattern at position 0 on that step.
C9_RestartAnchor ==
    [][(Len(evals') > 0 /\ (armed \/ Raised)) =>
           \A i \in 1..LANE_COUNT :
               /\ evals'[1].before[i] = 0
               /\ evals'[1].enabled[i] => evals'[1].pos[i] = 0]_vars

\* C10: every evaluated step advances the step cursor of every enabled lane
\* by exactly one modulo that lane's steps, whether the lane fired, was
\* dropped or the output cap was reached; and in continuous mode a note-on
\* or a note-off resets no cursor: the cursors stay as they were, up to the
\* step the call evaluates.
C10_CursorAdvance ==
    [][/\ \A k \in 1..Len(evals') : \A i \in 1..LANE_COUNT :
              evals'[k].enabled[i] =>
                  evals'[k].after[i] = (evals'[k].before[i] + 1) % evals'[k].steps[i]
       /\ (inst.retrigger_mode = "cont" /\ call'.op \in {"note_on", "note_off"}) =>
              IF Len(evals') = 0 THEN Cursors(inst') = Cursors(inst)
              ELSE evals'[1].before = Cursors(inst)]_vars

\* the positions of the cycle at which the lane fired
EuclidFired == {evals[i].cursor : i \in {k \in 1..Len(evals) : evals[k].hit}}

\* one whole cycle of lane 1 has been tested
EuclidCycle == call.op = "euclid_hit" /\ Len(evals) = inst.lanes[1].steps

\* C11: a lane with steps = 16, pulses = 4 and rotation = 0 fires exactly at
\* the positions 0, 4, 8, 12 of its cycle, and with rotation = 2 exactly at
\* the positions 2, 6, 10, 14.
C11_EuclidPositions ==
    (EuclidCycle /\ inst.lanes[1].steps = 16 /\ inst.lanes[1].pulses = 4) =>
        /\ inst.lanes[1].rotation = 0 => EuclidFired = {0, 4, 8, 12}
        /\ inst.lanes[1].rotation = 2 => EuclidFired = {2, 6, 10, 14}

C11_Witness ==
    /\ EuclidCycle /\ inst.lanes[1].steps = 16 /\ inst.lanes[1].pulses = 4
    /\ inst.lanes[1].rotation = 2
    /\ EuclidFired = {2, 6, 10, 14}

\* C12: for every steps in 1..128, pulses in 0..steps and rotation in
\* 0..steps-1 the membership test is true at exactly `pulses` of the `steps`
\* positions of one cycle; with pulses = 0 it is true at none and with
\* pulses = steps at every position.
C12_PulseCount ==
    EuclidCycle =>
        /\ Cardinality(EuclidFired) = inst.lanes[1].pulses
        /\ inst.lanes[1].pulses = 0 => EuclidFired = {}
        /\ inst.lanes[1].pulses = inst.lanes[1].steps
               => EuclidFired = 0..(inst.lanes[1].steps - 1)

C12_Witness ==
    /\ EuclidCycle /\ inst.lanes[1].steps = 7 /\ inst.lanes[1].pulses = 3
    /\ inst.lanes[1].rotation = 5
    /\ Cardinality(EuclidFired) = 3

\* C13: in every reachable state every lane has 0 <= pulses <= steps,
\* whatever the order in which set_param wrote steps and pulses, a state
\* import included.
C13_LaneInvariant ==
    \A i \in 1..LANE_COUNT : 0 <= inst.lanes[i].pulses /\ inst.lanes[i].pulses <= inst.lanes[i].steps

\* steps written as 0, stored as 1, over pulses of 4 or more: the pulses
\* were lowered to 1, a value no write of pulses stores by itself
C13_Witness ==
    /\ call.op = "set_param" /\ call.arg = LaneKey(1, "steps")
    /\ inst.lanes[1].steps = 1
    /\ inst.lanes[1].pulses = 1

\* C14: in every reachable state every lane has 0 <= rotation < steps,
\* whatever the order in which set_param wrote rotation and steps.
C14_RotationRange ==
    \A i \in 1..LANE_COUNT : 0 <= inst.lanes[i].rotation /\ inst.lanes[i].rotation < inst.lanes[i].steps

C17_OutputCap ==
    call.op \in {"note_on", "note_off", "start", "continue", "stop", "clock", "tick"} =>
        Len(out) <= call.cap

\* a Stop with room for one event that found a voice live: the CC 123 took
\* the room and the voice's note-off was not written
C17_Witness ==
    /\ call.op = "stop" /\ call.cap = 1
    /\ Len(out) = 1
    /\ Len(inst.voices) > 0

\* e is a note-on (velocity 1..127) or a note-off, of a pitch in 0..127
NoteEvent(e) ==
    /\ e[1] \in {NOTE_ON, NOTE_OFF}
    /\ e[2] \in 0..127
    /\ e[1] = NOTE_ON => e[3] \in 1..127

C16_ReapplyKeepsOutput ==
    [][call'.op = "set_state" =>
           \A f \in Futures : Outputs(inst', f, 1) = Outputs(inst, f, 1)]_vars

\* C20: set_param with a key that is not a parameter, with a lane key whose
\* index is outside 1..4 or with a lane key of an unknown suffix leaves the
\* whole instance, configuration and runtime state, as it was.
C20_UnknownKeyIgnored ==
    [][call'.op = "set_unknown" => inst' = inst]_vars

\* an unknown key set on an instance with a note held, a voice live and a
\* step due that the next tick will evaluate
C20_Witness ==
    /\ call.op = "set_unknown" /\ call.arg = LaneKey(LANE_COUNT + 1, "steps")
    /\ Len(inst.physical_notes) > 0
    /\ Len(inst.voices) > 0
    /\ inst.pending_step_triggers > 0

\* the held set of s: the keys down, sorted and in the order played
HeldSet(s) == <<s.physical_notes, s.physical_as_played>>

\* C19: in every reachable state at most 16 notes are held, at most 16 are
\* active and at most 64 voices are live (SpecKeys reaches 16 held and
\* active notes and, in hold mode, 64 voices with a further step that
\* evicts the oldest); a note-on of a new pitch while 16 keys are held
\* leaves the held set as it was, and so does a note-off of a pitch that
\* is not held, the rejected one included.
C19_FixedCapacity ==
    /\ [](/\ Len(inst.physical_notes) <= 16 /\ Len(inst.physical_as_played) <= 16
          /\ Len(inst.active_notes) <= 16 /\ Len(inst.as_played) <= 16
          /\ Len(inst.voices) <= 64)
    /\ [][(/\ call'.op = "note_on"
           /\ Len(inst.physical_notes) = 16
           /\ ~arr_contains(inst.physical_notes, call'.arg))
              => HeldSet(inst') = HeldSet(inst)]_vars
    /\ [][(call'.op = "note_off" /\ ~arr_contains(inst.physical_notes, call'.arg))
              => HeldSet(inst') = HeldSet(inst)]_vars

\* the note-off of the seventeenth key, which 16 keys held had kept out
C19_Witness ==
    /\ call.op = "note_off" /\ call.arg = KeyPitches[MAX_HELD_NOTES + 1]
    /\ Len(inst.physical_notes) = MAX_HELD_NOTES
    /\ Len(inst.active_notes) = MAX_HELD_NOTES
    /\ ~arr_contains(inst.physical_notes, call.arg)

\* the ranges C21 names, by key
ClaimedRange(k) ==
    IF k.lane
    THEN CASE k.name = "steps" -> <<1, 128>>
           [] k.name = "note" -> <<1, 24>>
           [] k.name \in {"drop", "n_rnd", "oct_rnd"} -> <<0, 100>>
    ELSE CASE k.name = "bpm" -> <<40, 240>>
           [] k.name = "swing" -> <<0, 100>>
           [] k.name = "max_voices" -> <<1, 64>>
           [] k.name = "root_note" -> <<0, 11>>
           [] k.name = "octave" -> <<-3, 3>>
           [] k.name = "scale_rng" -> <<1, 24>>
           [] k.name = "global_velocity" -> <<1, 127>>
           [] k.name = "global_gate" -> <<1, 1600>>

\* the value s stores for the key k
StoredValue(s, k) ==
    IF k.lane THEN get_lane_param(s, k.n, k.name)
    ELSE CASE k.name = "bpm" -> s.bpm
           [] k.name = "swing" -> s.swing
           [] k.name = "max_voices" -> s.max_voices
           [] k.name = "root_note" -> s.root_note
           [] k.name = "octave" -> s.octave
           [] k.name = "scale_rng" -> s.scale_range
           [] k.name = "global_velocity" -> s.global_velocity
           [] k.name = "global_gate" -> s.global_gate

\* the number the text spells, brought to the nearest bound of lo..hi
NearestBound(text, lo, hi) ==
    LET m == Magnitude(text.digits, 1, 0)
    IN  IF m < 0 THEN (IF text.neg THEN lo ELSE hi)
        ELSE clamp_int(IF text.neg THEN 0 - m ELSE m, lo, hi)

\* C21: after set_param of a numeric key with any integer value, the value
\* stored is that integer brought to the nearest bound of the key's range
\* (bpm 40..240, swing 0..100, max_voices 1..64, root_note 0..11, octave
\* -3..3, scale range 1..24, global velocity 1..127, global gate 1..1600,
\* lane steps 1..128, lane note 1..24, lane drop, note-random and
\* octave-random 0..100).
C21_ClampedOnWrite ==
    call.op = "set_param" =>
        StoredValue(inst, call.arg[1]) =
            NearestBound(call.arg[2], ClaimedRange(call.arg[1])[1], ClaimedRange(call.arg[1])[2])

\* the clocks per step C22 names for the rate r
ClaimedClocks(r) ==
    CASE r = "1/32" -> 3 [] r = "1/16T" -> 4 [] r = "1/16" -> 6 [] r = "1/8T" -> 8
      [] r = "1/8" -> 12 [] r = "1/4T" -> 16 [] r = "1/4" -> 24 [] r = "1/2" -> 48
      [] r = "1" -> 96

\* the step made a due-step signal: the signals waiting (delayed or
\* pending) are one more
DueRaised ==
    inst'.delayed_step_triggers + inst'.pending_step_triggers
        > inst.delayed_step_triggers + inst.pending_step_triggers

\* C22: clocks_per_step is the value named for the rate (3 for 1/32, 4 for
\* 1/16T, ... 96 for 1) and at least 1; while the MIDI clock is running a
\* clock pulse raises a due-step signal exactly when the count of pulses
\* since Start, this one included, is a positive multiple of
\* clocks_per_step.
C22_ClockCadence ==
    /\ [](inst.clocks_per_step = ClaimedClocks(inst.rate) /\ inst.clocks_per_step >= 1)
    /\ [][(call'.op = "clock" /\ inst.sync_mode = "clock" /\ inst.clock_running) =>
              (DueRaised <=> hist'.pulses % inst.clocks_per_step = 0)]_vars

\* C23 as stated: under MIDI clock a tick evaluates no more steps than
\* signals were pending before it (a signal still delayed, raised by the
\* last pulse, is not consumable until the next pulse has moved it), and
\* the pending counter goes down by one for every step the tick evaluated:
\* each pending signal is consumed by exactly one step evaluation.
C23_DelayedDueStep ==
    [][(call'.op = "tick" /\ inst.sync_mode = "clock") =>
           /\ Len(evals') <= inst.pending_step_triggers
           /\ inst'.pending_step_triggers = inst.pending_step_triggers - Len(evals')]_vars


\* the last call was a clock pulse that raised a due-step signal, the only
\* signal waiting
JustRaised ==
    /\ call.op = "clock" /\ call.cap >= 1
    /\ inst.sync_mode = "clock" /\ inst.clock_running
    /\ inst.clock_tick_total > 0 /\ inst.clock_counter = 0
    /\ inst.pending_step_triggers + inst.delayed_step_triggers = 1

\* the tick found no live note in restart mode and dropped the signals
Discarded ==
    /\ inst.retrigger_mode = "restart" /\ live_note_count(inst') = 0
    /\ Len(evals') = 0
    /\ inst'.pending_step_triggers = 0 /\ inst'.delayed_step_triggers = 0

\* C23, amended: under MIDI clock a tick that directly follows the pulse
\* that raised a signal evaluates no step for it, and no tick evaluates
\* more steps than signals were pending before it; the pending counter
\* goes down by one for every step the tick evaluated, except in a tick
\* that finds no live note in restart mode, which evaluates no step and
\* drops every pending and delayed signal.
C23_DelayedOrDiscarded ==
    [][(call'.op = "tick" /\ inst.sync_mode = "clock") =>
           /\ JustRaised => Len(evals') = 0
           /\ Len(evals') <= inst.pending_step_triggers
           /\ \/ /\ inst'.pending_step_triggers = inst.pending_step_triggers - Len(evals')
                 /\ inst'.delayed_step_triggers = inst.delayed_step_triggers
              \/ Discarded]_vars

\* a tick that evaluated the one pending step while the signal of the last
\* pulse stayed delayed
C23_Witness ==
    /\ call.op = "tick" /\ inst.sync_mode = "clock"
    /\ Len(evals) = 1
    /\ inst.pending_step_triggers = 0 /\ inst.delayed_step_triggers = 1
\* C24: under MIDI clock Start (0xFA) and Continue (0xFB) each set the
\* transport running and reset the pulse counter, the total pulse count and
\* the step cursor of every lane to zero.
C24_StartContinueReset ==
    [][(call'.op \in {"start", "continue"} /\ inst.sync_mode = "clock") =>
           /\ inst'.clock_running /\ inst'.midi_transport_active
           /\ inst'.clock_counter = 0 /\ inst'.clock_tick_total = 0
           /\ \A i \in 1..LANE_COUNT : inst'.lanes[i].step_cursor = 0]_vars

\* C25: in both sync modes, from a Stop to the next Start or Continue no
\* call evaluates a step or writes a note-on, whatever note-ons, note-offs,
\* ticks and clock pulses arrive.
C25_StoppedSilent ==
    [][(hist.stopped /\ hist'.stopped) =>
           Len(evals') = 0 /\ Len(NoteOns(out')) = 0]_vars


\* the pitches of the active-note set
ActiveSet(s) == {s.active_notes[i] : i \in DOMAIN s.active_notes}

\* a note-off in latch mode leaves the active-note set as it was
LatchOffKeeps ==
    (inst.latch /\ call'.op = "note_off") => inst'.active_notes = inst.active_notes

\* the first note-on after every key was released replaces the active set
LatchReplaces ==
    (inst.latch /\ call'.op = "note_on" /\ Len(inst.physical_notes) = 0)
        => inst'.active_notes = <<call'.arg>>

\* C26: in latch mode a note-off never removes a pitch from the active-note
\* set; with every key released the set stays as it is, the first note-on
\* after that replaces it with exactly that one pitch, and a note-on while a
\* key is still down adds its pitch to the set.
C26_LatchSemantics ==
    [][/\ LatchOffKeeps
       /\ LatchReplaces
       /\ (inst.latch /\ call'.op = "note_on" /\ Len(inst.physical_notes) > 0)
              => ActiveSet(inst') = ActiveSet(inst) \cup {call'.arg}]_vars

\* C26 (amended): as C26, but a note-on while a key is still down adds its
\* pitch only while the active set holds fewer than MAX_HELD_NOTES pitches;
\* a new pitch arriving at a full set leaves the set unchanged.
C26_LatchUpToCapacity ==
    [][/\ LatchOffKeeps
       /\ LatchReplaces
       /\ (inst.latch /\ call'.op = "note_on" /\ Len(inst.physical_notes) > 0)
              => IF Len(inst.active_notes) < MAX_HELD_NOTES
                    \/ call'.arg \in ActiveSet(inst)
                 THEN ActiveSet(inst') = ActiveSet(inst) \cup {call'.arg}
                 ELSE inst'.active_notes = inst.active_notes]_vars

\* a latched set holding more pitches than keys are down, after a note-on
\* received while a key was down
C26_Witness ==
    /\ inst.latch
    /\ call.op = "note_on"
    /\ Len(inst.physical_notes) > 1
    /\ Len(inst.active_notes) > Len(inst.physical_notes)


\* C27: in non-latch mode every step is evaluated with an active-note set
\* equal to the set of keys physically down at that moment, after any
\* sequence of note events, ticks and configuration changes.
C27_HoldActiveIsPhysical ==
    ~inst.latch =>
        \A i \in DOMAIN evals : evals[i].active = evals[i].physical


\* the call evaluated steps in held register mode, all with no active note
EmptyRegister(s, ev) ==
    /\ s.register_mode = "held"
    /\ Len(ev) > 0
    /\ \A i \in DOMAIN ev : ev[i].active = <<>>

\* C28: a step evaluated in held register mode with no active note emits
\* no note-on for any lane and creates no voice, and still moves the cursor
\* of every enabled lane one position on; in later steps a lane finds the
\* pool empty only when no note is active.
C28_EmptyRegisterSilent ==
    [][/\ EmptyRegister(inst', evals') =>
              /\ Len(NoteOns(out')) = 0
              /\ Len(inst'.voices) <= Len(inst.voices)
              /\ \A i \in DOMAIN evals' :
                     /\ evals'[i].sched = <<>>
                     /\ \A l \in 1..LANE_COUNT :
                            evals'[i].enabled[l] =>
                                /\ evals'[i].what[l] \in {"rest", "drop", "empty"}
                                /\ evals'[i].after[l]
                                       = (evals'[i].pos[l] + 1) % evals'[i].steps[l]
       /\ (inst'.register_mode = "held") =>
              \A i \in DOMAIN evals' :
                  (\E l \in 1..LANE_COUNT : evals'[i].what[l] = "empty")
                      => evals'[i].active = <<>>]_vars

\* a tick evaluated a step at a hit of lane 1 with no active note
C28_Witness ==
    /\ call.op = "tick"
    /\ EmptyRegister(inst, evals)
    /\ evals[1].what[1] = "empty"
    /\ evals[1].after[1] # evals[1].before[1]


\* the index of the note-on of the scheduled note k among its events, 0 if
\* it was not written
OnAt(k) ==
    IF \E i \in DOMAIN k.events : k.events[i][1] = NOTE_ON /\ k.events[i][2] = k.note
    THEN CHOOSE i \in DOMAIN k.events : k.events[i][1] = NOTE_ON /\ k.events[i][2] = k.note
    ELSE 0

\* the voices of pitch k.note right after the note k was scheduled
VoicesOf(k) == SelectSeq(k.after, LAMBDA v : v.note = k.note)

\* the duration voice_add gives a gate of g% in the timing of s
GateDuration(s, g) ==
    IF s.sync_mode = "clock"
    THEN [clock_left |-> Max((s.clocks_per_step * g) \div 100, 1), sample_left |-> 0]
    ELSE [clock_left |-> 0, sample_left |-> Max((s.step_interval_base * g) \div 100, 1)]

\* C29: a scheduled note (its note-on was written) with a gate above 0%
\* creates exactly one voice, lasting max(1, floor(clocks_per_step * g / 100))
\* pulses under MIDI clock and max(1, floor(step interval * g / 100)) samples
\* under the internal clock; a note with a gate of 0% creates no voice and
\* its note-off follows its note-on at once.
C29_VoiceCreation ==
    \A k \in Schedules :
        OnAt(k) > 0 =>
            IF k.gate > 0
            THEN /\ Len(VoicesOf(k)) = 1
                 /\ k.after[Len(k.after)].note = k.note
                 /\ VoicesOf(k)[1].clock_left = GateDuration(inst, k.gate).clock_left
                 /\ VoicesOf(k)[1].sample_left = GateDuration(inst, k.gate).sample_left
            ELSE /\ Len(VoicesOf(k)) = 0
                 /\ OnAt(k) < Len(k.events)
                 /\ k.events[OnAt(k) + 1] = <<NOTE_OFF, k.note, 0>>


\* a voice of pitch n is live
VoiceLive(n) == \E i \in DOMAIN inst.voices : inst.voices[i].note = n

\* no voice of pitch n is live, or the last call wrote a note-off for one
Retired(n) ==
    \/ ~VoiceLive(n)
    \/ \E i \in DOMAIN out : out[i][1] = NOTE_OFF /\ out[i][2] = n

\* the exploration's budget of pulses or samples is used up
Exhausted ==
    IF inst.sync_mode = "clock" THEN inst.clock_tick_total >= MaxClockTotal
    ELSE \A frames \in Frames : inst.internal_sample_total + frames > MaxSampleTotal

\* the voices a clock pulse leaves: those with more than one pulse left, one
\* pulse less
AfterPulse(voices) ==
    [i \in 1..Len(SelectSeq(voices, LAMBDA v : v.clock_left > 1)) |->
        [SelectSeq(voices, LAMBDA v : v.clock_left > 1)[i] EXCEPT !.clock_left = @ - 1]]

\* a clock pulse under MIDI clock takes one pulse off every voice and retires,
\* with a note-off, those that reach zero
ExpiresOnTime ==
    (inst.sync_mode = "clock" /\ call'.op = "clock") =>
        /\ inst'.voices = AfterPulse(inst.voices)
        /\ Len(NoteOffs(out')) = Len(inst.voices) - Len(inst'.voices)

\* C30: every live voice is eventually retired, provided ticks keep arriving
\* under the internal clock or clock pulses under MIDI clock, with room for
\* at least one event; under MIDI clock a voice with d pulses left is retired
\* on exactly the d-th clock pulse after its creation.
C30_VoiceExpiry ==
    /\ \A n \in {60, 72} : VoiceLive(n) ~> (Retired(n) \/ Exhausted)
    /\ [][ExpiresOnTime]_vars


\* the pool a step of the instance would build
PoolOf(s) == build_register_pool(s, MAX_POOL_NOTES)

\* C31: for a non-empty pool of n entries, a lane whose configured note
\* index is k selects the k-th entry of the pool when k <= n and the last
\* entry when k > n.
C31_PitchIndex ==
    (call.op = "select_lane_note" /\ Len(PoolOf(inst)) > 0)
    => LET k == inst.lanes[call.arg].note_step
           n == Len(PoolOf(inst))
       IN  out = <<IF k <= n THEN PoolOf(inst)[k] ELSE PoolOf(inst)[n]>>

\* the index lies beyond a pool of three entries and the last one is chosen
C31_Witness ==
    /\ call.op = "select_lane_note"
    /\ Len(PoolOf(inst)) = 3
    /\ inst.lanes[call.arg].note_step = MAX_POOL_NOTES
    /\ out = <<PoolOf(inst)[3]>>
    /\ PoolOf(inst)[3] # PoolOf(inst)[1]

\* C32: with a substitution amount of 100 and at least two pool entries the
\* pitch chosen is a pool entry other than the one at the lane's index; with
\* an amount of 0 or a single pool entry it is the one at the lane's index.
C32_Substitution ==
    call.op = "apply_lane_note_random"
    => LET lane == inst.lanes[call.arg]
           base == select_lane_note(lane, PoolOf(inst))
       IN  /\ (lane.note_rnd = 100 /\ Len(PoolOf(inst)) >= 2)
              => (out[1] \in Range(PoolOf(inst)) /\ out[1] # base)
           /\ (lane.note_rnd = 0 \/ Len(PoolOf(inst)) = 1) => out[1] = base

\* an amount of 100 replaced the pitch at the index in a pool of three
C32_Witness ==
    /\ call.op = "apply_lane_note_random"
    /\ inst.lanes[call.arg].note_rnd = 100
    /\ Len(PoolOf(inst)) = 3
    /\ out[1] \in Range(PoolOf(inst))
    /\ out[1] # select_lane_note(inst.lanes[call.arg], PoolOf(inst))


\* the pool the next step would build: run_step takes up the pending note
\* set and updates the phrase before its lanes build the pool
StepPool(s) ==
    build_register_pool(update_phrase_running(apply_pending_note_set(s)), MAX_POOL_NOTES)

\* C33: in both register modes the pool built for a step has at most 24
\* entries, no pitch twice and every pitch in 0..127; it is strictly
\* ascending for held order up and strictly descending for held order down;
\* in scale mode it is no longer than the configured scale range.
C33_PoolOrdering ==
    LET pool == StepPool(inst)
    IN  /\ Len(pool) <= MAX_POOL_NOTES
        /\ \A i, j \in 1..Len(pool) : i < j => pool[i] # pool[j]
        /\ \A i \in 1..Len(pool) : pool[i] \in 0..127
        /\ inst.held_order = "up" => \A i \in 1..(Len(pool) - 1) : pool[i] < pool[i + 1]
        /\ inst.held_order = "down" => \A i \in 1..(Len(pool) - 1) : pool[i] > pool[i + 1]
        /\ inst.register_mode = "scale" => Len(pool) <= inst.scale_range

\* three keys pressed lowest first, the pool descending
C33_Witness ==
    /\ inst.register_mode = "held"
    /\ inst.held_order = "down"
    /\ inst.physical_as_played = <<0, 64, 127>>
    /\ StepPool(inst) = <<127, 64, 0>>

\* the pool in played order, whatever the held order is now
PlayedPool(s) == StepPool([s EXCEPT !.held_order = "played"])

\* the live pitches: the held keys in hold mode, the active set in latch mode
LivePitches(s) == IF s.latch THEN ActiveSet(s) ELSE Range(s.physical_notes)

\* what a call does to the played order: a note-on of a new pitch appends
\* it (in latch mode after a full release it starts the order afresh), a
\* note-off in hold mode takes the pitch out, Stop empties it, and nothing
\* else changes it
PlayedStep ==
    LET pool == PlayedPool(inst)
        n == call'.arg
    IN  (inst.register_mode = "held" /\ inst'.register_mode = "held")
        => CASE call'.op = "note_on" ->
                  IF inst.latch /\ inst.latch_ready_replace THEN PlayedPool(inst') = <<n>>
                  ELSE IF n \in Range(pool) \/ Len(pool) >= MAX_HELD_NOTES
                  THEN PlayedPool(inst') = pool
                  ELSE PlayedPool(inst') = Append(pool, n)
             [] call'.op = "note_off" ->
                  IF inst.latch THEN PlayedPool(inst') = pool
                  ELSE PlayedPool(inst') = SelectSeq(pool, LAMBDA p : p # n)
             [] call'.op = "stop" -> PlayedPool(inst') = <<>>
             [] OTHER -> PlayedPool(inst') = pool

\* C34: in held register mode with held order played the pool lists exactly
\* the active pitches, in the order in which their note-ons arrived; a key
\* released and pressed again in hold mode moves to the end, and a pitch that
\* is no longer active does not appear.
C34_AsPlayed ==
    /\ [](inst.register_mode = "held" /\ inst.held_order = "played"
          => /\ StepPool(inst) = PlayedPool(inst)
             /\ Range(StepPool(inst)) = LivePitches(inst)
             /\ \A i, j \in 1..Len(StepPool(inst)) :
                    i < j => StepPool(inst)[i] # StepPool(inst)[j])
    /\ [][PlayedStep]_vars

\* the lowest key pressed last ends the pool of three held keys
C34_Witness ==
    /\ inst.register_mode = "held"
    /\ inst.held_order = "played"
    /\ ~inst.latch
    /\ call.op = "note_on"
    /\ call.arg = 0
    /\ StepPool(inst) = <<64, 127, 0>>


\* the base interval, the swing delta and the interval of a swing phase,
\* in 1/FX sample
SwingBase(s) == IF s.step_interval_base_f > 0 THEN s.step_interval_base_f ELSE FX

SwingDelta(s) == (SwingBase(s) * s.swing) \div 200

Swung(s) == ~rate_is_triplet(s.rate) /\ s.swing > 0

SwingInterval(s, phase) ==
    IF ~Swung(s) THEN SwingBase(s)
    ELSE IF phase = 0 THEN SwingBase(s) + SwingDelta(s)
    ELSE SwingBase(s) - SwingDelta(s)

\* the countdown a tick starts from: eucalypso_tick recalculates the timing
\* first when it is dirty
CountdownAtTick(s) ==
    (IF s.timing_dirty \/ s.sample_rate # SAMPLE_RATE
     THEN recalc_timing(s, SAMPLE_RATE) ELSE s).samples_until_step_f

\* the call is a transport Start or resets the phrase (in restart mode the
\* phrase starts or ends)
PhraseReset ==
    \/ call'.op \in {"start", "continue"}
    \/ inst.retrigger_mode = "restart" /\ inst'.phrase_running # inst.phrase_running

\* the call sets the rate or the tempo of the running internal clock
Resync ==
    /\ call'.op = "set_param"
    /\ call'.arg[1].name \in {"rate", "bpm"}
    /\ inst.sample_rate > 0

\* a call under the swing, where reset tells whether the call starts the
\* alternation afresh: a call evaluates at most one step; the interval after
\* the step is the long one in phase 0 and the short one in phase 1 and the
\* phase flips, on a triplet rate or without swing it is the base and the
\* phase stays; a call that evaluates no step leaves the phase alone
SwingCall(reset) ==
    LET p0 == IF reset THEN 0 ELSE inst.swing_phase
        from == IF call'.op = "tick" THEN CountdownAtTick(inst) - call'.arg * FX ELSE 0
    IN  IF Len(evals') = 0 THEN inst'.swing_phase = p0
        ELSE /\ Len(evals') = 1
             /\ inst'.swing_phase = IF Swung(inst') THEN 1 - p0 ELSE p0
             /\ inst'.samples_until_step_f = Max(from + SwingInterval(inst', p0), FX)

\* C35: in internal-clock mode with swing on a non-triplet rate the step
\* intervals alternate long (base + delta), short (base - delta), starting
\* with the long one after every phrase reset or transport Start; on a
\* triplet rate every interval is the base and the swing phase stays.
C35_SwingAlternation == [][SwingCall(PhraseReset)]_vars

\* C35 as the code has it: setting the rate or the tempo of the running
\* internal clock starts the alternation afresh as well.
C35_SwingWithResync == [][SwingCall(PhraseReset \/ Resync)]_vars

\* a tick evaluated a step in phase 1 and armed the short interval
C35_Witness ==
    /\ call.op = "tick"
    /\ Len(evals) = 1
    /\ Swung(inst)
    /\ inst.swing_phase = 0
    /\ inst.samples_until_step_f = SwingBase(inst) - SwingDelta(inst)


\* a note-on in held register mode takes the live note count from 0 to
\* non-zero
AnchorCase ==
    /\ call'.op = "note_on"
    /\ inst.register_mode = "held"
    /\ live_note_count(inst) = 0
    /\ live_note_count(inst') > 0

\* no Start or Continue since construction or the last Stop: the flag
\* midi_transport_active is set by Start and Continue, cleared by Stop and
\* left alone by every other call
TransportTracked ==
    inst'.midi_transport_active =
        CASE call'.op \in {"start", "continue"} -> TRUE
          [] call'.op = "stop" -> FALSE
          [] OTHER -> inst.midi_transport_active

\* the transport lets the first note anchor a step
TransportFree(s) ==
    ~s.midi_transport_active /\ (s.sync_mode = "clock" => s.clock_running)

\* under an active transport a note-on evaluates no step and emits nothing
QuietUnderTransport ==
    call'.op = "note_on" /\ inst.midi_transport_active => out' = <<>> /\ evals' = <<>>

\* C36: a note-on that takes the live note count from 0 to non-zero in held
\* register mode evaluates one step within the same call if and only if no
\* Start or Continue was received since construction or the last Stop (and,
\* under MIDI clock, the clock is running); under an active transport a
\* note-on emits nothing.
C36_ImmediateAnchor ==
    /\ [](call.op = "create" => ~inst.midi_transport_active)
    /\ [][/\ TransportTracked
          /\ AnchorCase => (Len(evals') = 1 <=> TransportFree(inst))
          /\ QuietUnderTransport]_vars

\* C36 as the code has it: the step is evaluated only in a call that has
\* room for at least one output event.
C36_AnchorWithRoom ==
    /\ [](call.op = "create" => ~inst.midi_transport_active)
    /\ [][/\ TransportTracked
          /\ AnchorCase => /\ Len(evals') <= 1
                           /\ Len(evals') = 1 <=> TransportFree(inst) /\ call'.cap > 0
          /\ call'.op = "note_on" /\ ~AnchorCase => evals' = <<>> /\ out' = <<>>
          /\ QuietUnderTransport]_vars

\* the first note under MIDI clock, no Start received, anchored a step that
\* played it
C36_Witness ==
    /\ call.op = "note_on"
    /\ inst.sync_mode = "clock"
    /\ ~inst.midi_transport_active
    /\ Len(evals) = 1
    /\ out = <<Ev(NOTE_ON, call.arg, 100)>>


\* the number of note-offs of pitch p the events o hold before a note-on of
\* p creates its next voice
OffsOfLive(o, p) ==
    OffsBefore(o, p, IF FirstOn(o, p) = 0 THEN Len(o) + 1 ELSE FirstOn(o, p))

\* the voice of pitch p is in the list before and after the call, which
\* wrote no event of p
VoiceKept(p) ==
    /\ p \in Range(VoiceNotes(inst'))
    /\ \A k \in 1..Len(out') : out'[k][2] = p => out'[k][1] \notin {NOTE_ON, NOTE_OFF}

ShouldRun(s) ==
    /\ live_note_count(s) > 0
    /\ s.register_mode = "scale" => any_enabled_lane(s)

\* C38: after every public operation (create, set_param, process_midi,
\* tick) phrase_running is true exactly when the live note count (held keys
\* in hold mode, active notes in latch mode) is non-zero and, in scale
\* register mode, at least one lane is enabled.
C38_PhraseRunning == inst.phrase_running <=> ShouldRun(inst)


\* a tick in scale register mode found a held key and no enabled lane: the
\* phrase is not running
C38_Witness ==
    /\ call.op = "tick"
    /\ inst.register_mode = "scale"
    /\ live_note_count(inst) > 0
    /\ ~any_enabled_lane(inst)
    /\ ~inst.phrase_running


\* the due steps the counters of s hold
Backlog(s) == s.pending_step_triggers + s.delayed_step_triggers

\* a clock pulse moves the delayed due steps to the pending ones and drops
\* what exceeds the limit
PulseDiscards ==
    call'.op = "clock" =>
        inst'.pending_step_triggers =
            Min(Backlog(inst), MAX_PENDING_STEP_TRIGGERS)

\* a tick evaluates no more steps than were pending, and the pending counter
\* falls by one for each step it evaluated or is cleared
TickBounded ==
    call'.op = "tick" =>
        /\ Len(evals') <= inst.pending_step_triggers
        /\ Len(evals') <= MAX_PENDING_STEP_TRIGGERS
        /\ inst'.pending_step_triggers \in
               {0, inst.pending_step_triggers - Len(evals')}

\* C39: the pending and the delayed step-trigger counters are each within
\* 0..64 in every reachable state; a tick under MIDI clock evaluates at most
\* 64 steps; due steps that accumulate beyond 64 without a tick are dropped,
\* not replayed.
C39_BoundedBacklog ==
    /\ [](/\ inst.pending_step_triggers \in 0..MAX_PENDING_STEP_TRIGGERS
          /\ inst.delayed_step_triggers \in 0..MAX_PENDING_STEP_TRIGGERS)
    /\ [][PulseDiscards /\ TickBounded]_vars

\* the first tick after more than 65 due steps, no key held and the lanes
\* progressing: it evaluated 64 steps and nothing is pending
C39_Witness ==
    /\ call.op = "tick"
    /\ inst.retrigger_mode = "cont"
    /\ live_note_count(inst) = 0
    /\ inst.clock_tick_total > (MAX_PENDING_STEP_TRIGGERS + 1) * inst.clocks_per_step
    /\ Len(evals) = MAX_PENDING_STEP_TRIGGERS
    /\ inst.pending_step_triggers = 0


\* the live note count as eucalypso_tick takes it: in scale register mode
\* it is 0 without an enabled lane
TickLiveCount(s) ==
    IF s.register_mode = "scale"
    THEN IF any_enabled_lane(s) /\ live_note_count(s) > 0 THEN 1 ELSE 0
    ELSE live_note_count(s)

\* a tick called while the live note count is zero
ReleaseTick == call'.op = "tick" /\ TickLiveCount(inst) = 0

\* the tick wrote the note-off of every voice that was live, oldest first
AllRetired ==
    NoteOffs(out') = [i \in 1..Len(inst.voices) |-> Ev(NOTE_OFF, inst.voices[i].note, 0)]

\* C40: a tick called while the live note count is zero retires every live
\* voice with a note-off, whatever is left of its gate and in both retrigger
\* modes, and leaves no voice when the buffer has room for the note-offs;
\* under MIDI clock in restart mode the tick also clears the pending and the
\* delayed step triggers.
C40_ReleaseCutOff ==
    [][ReleaseTick =>
           /\ call'.cap >= Len(inst.voices) => AllRetired /\ Len(inst'.voices) = 0
           /\ inst.sync_mode = "clock" /\ inst.retrigger_mode = "restart" =>
                  /\ inst'.pending_step_triggers = 0
                  /\ inst'.delayed_step_triggers = 0]_vars

\* the voices above max_voices, whose note-offs enforce_voice_limit writes
\* first
Excess(s) == Max(Len(s.voices) - clamp_int(s.max_voices, 1, MAX_VOICES), 0)

\* the tick wrote note-offs only, of as many live voices as the buffer has
\* room for, and the other voices are still in the list
RetiredAsFits ==
    /\ out' = NoteOffs(out')
    /\ Len(out') = Min(Len(inst.voices), call'.cap)
    /\ Len(inst'.voices) = Len(inst.voices) - Len(out')
    /\ Range(VoiceNotes(inst')) \cup {e[2] : e \in Range(out')} = Range(VoiceNotes(inst))

\* C40 as the code has it: a tick without room for an event does nothing.
\* Otherwise the tick retires as many live voices as the buffer has room
\* for, in both retrigger modes and whatever is left of their gates, and
\* leaves no voice when there is room for all.  Under MIDI clock in restart
\* mode it clears the pending and the delayed step triggers unless the
\* note-offs of the voices above max_voices fill the buffer: then it returns
\* before the release and leaves the triggers as they are.
C40_ReleaseWithRoom ==
    [][ReleaseTick =>
           IF call'.cap = 0 THEN inst' = inst /\ out' = <<>>
           ELSE /\ RetiredAsFits
                /\ call'.cap >= Len(inst.voices) => AllRetired /\ Len(inst'.voices) = 0
                /\ inst.sync_mode = "clock" /\ inst.retrigger_mode = "restart" =>
                       IF Excess(inst) >= call'.cap
                       THEN /\ inst'.pending_step_triggers = inst.pending_step_triggers
                            /\ inst'.delayed_step_triggers = inst.delayed_step_triggers
                       ELSE /\ inst'.pending_step_triggers = 0
                            /\ inst'.delayed_step_triggers = 0]_vars

\* a tick after the release of the keys retired two voices whose gates had
\* not run out
C40_Witness ==
    /\ call.op = "tick"
    /\ live_note_count(inst) = 0
    /\ Len(NoteOffs(out)) = 2
    /\ Len(out) = 2
    /\ inst.voices = <<>>
    /\ inst.sync_mode = "clock"

====
